---------------------------- MODULE Spec2Model ----------------------------
(***************************************************************************)
(* A model of the bucketing engine of optimizely-sdk-go: the murmur3       *)
(* bucket value, the traffic-allocation scan, the construction of a        *)
(* Project from a datafile, and concurrent GetVariation calls against the  *)
(* per-experiment assignment cache.                                        *)
(*                                                                         *)
(* Go strings that are hashed are sequences of byte values; strings that   *)
(* are only compared are TLA+ strings.  A Go pointer is a sequence of      *)
(* length 0 (nil) or 1 (the value pointed to).  A uint32 is a pair         *)
(* <<hi, lo>> of 16-bit limbs, because the arithmetic of the hash needs    *)
(* all 32 bits.                                                            *)
(***************************************************************************)
EXTENDS Integers, Sequences, FiniteSets, TLC

VARIABLES
    project,           \* the Project under concurrent use
    cachedVariations,  \* experiment key -> (user -> Variation): Experiment.cachedVariations
    mutex,             \* experiment key -> [readers, writer]: Experiment.mutex
    pc,                \* thread -> position in the call it is making
    local,             \* thread -> the call's arguments and local variables
    calls,             \* thread -> number of calls started
    projectCtx,        \* the session: [userID, impressions, mutex]
    returned,          \* history: <<experiment name, user, Variation>> of every impression returned
    hs,                \* state of one getBucketValue evaluation
    fs,                \* state of one findBucket evaluation
    bs,                \* state of one NewProjectFromDataFile evaluation
    es,                \* state of one NewEvents evaluation
    cs,                \* state of one api client call
    log                \* history: impressions recorded in the session, batches drained from it

vars == <<project, cachedVariations, mutex, pc, local, calls, projectCtx, returned, log,
          hs, fs, bs, es, cs>>

\* the variables of the concurrent callers
mainVars == <<project, cachedVariations, mutex, pc, local, calls, projectCtx, returned, log>>

-----------------------------------------------------------------------------
(* Pointers *)

Nil == <<>>

Ptr(v) == <<v>>

Deref(p) == Head(p)

-----------------------------------------------------------------------------
(* uint32 arithmetic on 16-bit limbs; every intermediate value stays below 2^31 *)

\* low and high 16 bits of the product of two 16-bit limbs
MulLo16(x, y) == ((x * (y % 256)) + ((x * (y \div 256)) % 256) * 256) % 65536

MulHi16(x, y) ==
    ((x * (y \div 256)) \div 256)
        + ((((x * (y \div 256)) % 256) * 256 + x * (y % 256)) \div 65536)

\* a * b modulo 2^32
Mul32(a, b) ==
    <<(MulHi16(a[2], b[2]) + MulLo16(a[1], b[2]) + MulLo16(a[2], b[1])) % 65536,
      MulLo16(a[2], b[2])>>

\* a + b modulo 2^32
Add32(a, b) ==
    <<(a[1] + b[1] + ((a[2] + b[2]) \div 65536)) % 65536, (a[2] + b[2]) % 65536>>

RECURSIVE XorBits(_, _, _)
XorBits(x, y, n) ==
    IF n = 0 THEN 0
    ELSE (((x % 2) + (y % 2)) % 2) + 2 * XorBits(x \div 2, y \div 2, n - 1)

Xor32(a, b) == <<XorBits(a[1], b[1], 16), XorBits(a[2], b[2], 16)>>

Pow2(n) == IF n = 0 THEN 1 ELSE IF n = 13 THEN 8192 ELSE IF n = 15 THEN 32768
           ELSE IF n = 1 THEN 2 ELSE IF n = 3 THEN 8 ELSE 65536

\* rotate left by r, 0 < r < 16
Rotl32(a, r) ==
    <<((a[1] * Pow2(r)) % 65536) + (a[2] \div Pow2(16 - r)),
      ((a[2] * Pow2(r)) % 65536) + (a[1] \div Pow2(16 - r))>>

\* logical shift right by 16 and by 13
Shr16(a) == <<0, a[1]>>

Shr13(a) == <<a[1] \div 8192, ((a[1] % 8192) * 8) + (a[2] \div 8192)>>

-----------------------------------------------------------------------------
(* murmur3.Sum32WithSeed, as called by getBucketValue *)

c1_32 == <<52382, 11601>>       \* 0xcc9e2d51

c2_32 == <<7047, 13715>>        \* 0x1b873593

n_32 == <<58964, 27492>>        \* 0xe6546b64

fmix1 == <<34283, 51819>>       \* 0x85ebca6b

fmix2 == <<49842, 44597>>       \* 0xc2b2ae35

\* value to seed the murmur hash algorithm with
hashSeed == 1

MixK(k) == Mul32(Rotl32(Mul32(k, c1_32), 15), c2_32)

\* one 4-byte little-endian block
Block(data, i) == <<data[i + 2] + 256 * data[i + 3], data[i] + 256 * data[i + 1]>>

RECURSIVE Blocks(_, _, _)
Blocks(data, i, h) ==
    IF i + 3 > Len(data) THEN h
    ELSE Blocks(data, i + 4,
              Add32(Mul32(Rotl32(Xor32(h, MixK(Block(data, i))), 13), <<0, 5>>), n_32))

TailBytes(data, h) ==
    LET nb == (Len(data) \div 4) * 4
        r  == Len(data) - nb
        k  == <<IF r >= 3 THEN data[nb + 3] ELSE 0,
                (IF r >= 1 THEN data[nb + 1] ELSE 0)
                    + 256 * (IF r >= 2 THEN data[nb + 2] ELSE 0)>>
    IN  IF r = 0 THEN h ELSE Xor32(h, MixK(k))

Fmix32(h0) ==
    LET h1 == Xor32(h0, Shr16(h0))
        h2 == Mul32(h1, fmix1)
        h3 == Xor32(h2, Shr13(h2))
        h4 == Mul32(h3, fmix2)
    IN  Xor32(h4, Shr16(h4))

Sum32WithSeed(data, seed) ==
    Fmix32(Xor32(TailBytes(data, Blocks(data, 1, <<0, seed>>)), <<0, Len(data)>>))

-----------------------------------------------------------------------------
(* Bucketing: src/bucketing.go *)

\* status of an experiment that is in the running state
runningStatus == "Running"

\* max value of a traffic allocation; used as an upper bound for the bucketing hash
maxTrafficValue == 10000

\* float64(hashCode) / math.MaxUint32, times maxTrafficValue, floored.  The
\* float64 result equals the exact floor(h * 10000 / (2^32 - 1)) for every
\* uint32 h: the exact quotient is an integer only for h = j * 858993459
\* (j = 0..5), where j / 5 * 10000 rounds to the integer itself, and is
\* otherwise at least 5 / (2^32 - 1) away from an integer, far more than the
\* rounding error of one division and one multiplication.
\* With h * 10000 = A * 2^32 + B the floor is A, plus one when A + B >= 2^32 - 1.
BucketOfHash(h) ==
    LET lo == h[2] * maxTrafficValue
        s  == h[1] * maxTrafficValue + (lo \div 65536)
        A  == s \div 65536
    IN  A + (IF (s % 65536) = 65535 /\ (lo % 65536) >= 65535 - A THEN 1 ELSE 0)

\* BucketingKey with the two ids in the other order
BucketingKeySwapped(e, bucketingID) == e.id \o bucketingID

\* fmt.Sprintf("%v%v", bucketingID, e.id)
BucketingKey(e, bucketingID) == bucketingID \o e.id

getBucketValue(e, bucketingID) ==
    BucketOfHash(Sum32WithSeed(BucketingKey(e, bucketingID), hashSeed))

\* FirstAbove taking endOfRange for the last value of the range
RECURSIVE FirstAboveOffByOne(_, _, _)
FirstAboveOffByOne(ta, i, bucketValue) ==
    IF i > Len(ta) THEN 0
    ELSE IF bucketValue < ta[i].endOfRange - 1 THEN i
    ELSE FirstAboveOffByOne(ta, i + 1, bucketValue)

\* FirstAbove taking an endOfRange equal to bucketValue as well
RECURSIVE FirstAboveOrEqual(_, _, _)
FirstAboveOrEqual(ta, i, bucketValue) ==
    IF i > Len(ta) THEN 0
    ELSE IF bucketValue <= ta[i].endOfRange THEN i
    ELSE FirstAboveOrEqual(ta, i + 1, bucketValue)

\* index of the first allocation from position i on whose endOfRange exceeds
\* bucketValue; 0 when the range loop runs off the end
RECURSIVE FirstAbove(_, _, _)
FirstAbove(ta, i, bucketValue) ==
    IF i > Len(ta) THEN 0
    ELSE IF bucketValue < ta[i].endOfRange THEN i
    ELSE FirstAbove(ta, i + 1, bucketValue)

findBucket(e, bucketValue) ==
    LET i == FirstAbove(e.trafficAllocation, 1, bucketValue)
    IN  IF i = 0 THEN Nil ELSE Ptr(e.trafficAllocation[i].Variation)

-----------------------------------------------------------------------------
(* Construction: src/project.go *)

\* only version 4 of the datafile is currently supported
supportedDatafileVersion == "4"

EmptyMap == [x \in {} |-> Nil]

\* m[k] = v
Put(m, k, v) == [x \in DOMAIN m \cup {k} |-> IF x = k THEN v ELSE m[x]]

\* Project{}
ZeroProject ==
    [Version |-> "", Revision |-> "", ProjectID |-> "", AccountID |-> "",
     experiments |-> EmptyMap, RawDataFile |-> Nil]

\* json.Unmarshal(datafileJSON, &df): a document is either bytes the decoder
\* rejects, or the datafile value the decoder produces from them
json_Unmarshal(datafileJSON) ==
    IF datafileJSON.wellFormed
    THEN [err |-> Nil, df |-> datafileJSON.df]
    ELSE [err |-> Ptr("json: cannot unmarshal"), df |-> Nil]

\* what a *Project held by an Experiment reads through
ProjectRef(df) ==
    [Version |-> df.Version, Revision |-> df.Revision,
     ProjectID |-> df.ProjectID, AccountID |-> df.AccountID]

\* what a *Experiment held by a Variation reads through
ExperimentRef(exp, df) ==
    [id |-> exp.ID, Key |-> exp.Key, layerID |-> exp.LayerID, status |-> exp.Status,
     project |-> ProjectRef(df)]

NewVariation(v, exp, df) ==
    [id |-> v.ID, Key |-> v.Key, experiment |-> ExperimentRef(exp, df)]

\* the loop over exp.Variations: the later declaration of an id or key wins
RECURSIVE VariationsByID(_, _, _, _)
VariationsByID(exp, df, i, m) ==
    IF i > Len(exp.Variations) THEN m
    ELSE VariationsByID(exp, df, i + 1,
             Put(m, exp.Variations[i].ID, NewVariation(exp.Variations[i], exp, df)))

RECURSIVE VariationsByKey(_, _, _, _)
VariationsByKey(exp, df, i, m) ==
    IF i > Len(exp.Variations) THEN m
    ELSE VariationsByKey(exp, df, i + 1,
             Put(m, exp.Variations[i].Key, NewVariation(exp.Variations[i], exp, df)))

\* BuildTrafficAllocation putting each new entry in front of the list
RECURSIVE BuildTrafficAllocationPrepend(_, _, _, _)
BuildTrafficAllocationPrepend(decl, variationsByID, i, ta) ==
    IF i > Len(decl) THEN [ta |-> ta, err |-> Nil]
    ELSE IF decl[i].EntityID \notin DOMAIN variationsByID
         THEN [ta |-> <<>>, err |-> Ptr(<<"unknown variation ID", decl[i].EntityID>>)]
         ELSE BuildTrafficAllocationPrepend(decl, variationsByID, i + 1,
                  <<[endOfRange |-> decl[i].EndOfRange,
                     Variation  |-> variationsByID[decl[i].EntityID]]>> \o ta)

\* BuildTrafficAllocation skipping an unknown entity id, as the loop over the
\* forced variations does
RECURSIVE BuildTrafficAllocationSkip(_, _, _, _)
BuildTrafficAllocationSkip(decl, variationsByID, i, ta) ==
    IF i > Len(decl) THEN [ta |-> ta, err |-> Nil]
    ELSE IF decl[i].EntityID \notin DOMAIN variationsByID
         THEN BuildTrafficAllocationSkip(decl, variationsByID, i + 1, ta)
         ELSE BuildTrafficAllocationSkip(decl, variationsByID, i + 1,
                  Append(ta, [endOfRange |-> decl[i].EndOfRange,
                              Variation  |-> variationsByID[decl[i].EntityID]]))

\* the loop over exp.TrafficAllocation: stops at the first unknown entity id
RECURSIVE BuildTrafficAllocation(_, _, _, _)
BuildTrafficAllocation(decl, variationsByID, i, ta) ==
    IF i > Len(decl) THEN [ta |-> ta, err |-> Nil]
    ELSE IF decl[i].EntityID \notin DOMAIN variationsByID
         THEN [ta |-> <<>>, err |-> Ptr(<<"unknown variation ID", decl[i].EntityID>>)]
         ELSE BuildTrafficAllocation(decl, variationsByID, i + 1,
                  Append(ta, [endOfRange |-> decl[i].EndOfRange,
                              Variation  |-> variationsByID[decl[i].EntityID]]))

\* BuildForcedVariations giving up the whole map at an unknown variation name
BuildForcedVariationsAbort(decl, variationsByKey) ==
    IF \E u \in DOMAIN decl : decl[u] \notin DOMAIN variationsByKey
    THEN EmptyMap
    ELSE [userID \in DOMAIN decl |-> variationsByKey[decl[userID]]]

\* the loop over exp.ForcedVariations: an unknown variation name is skipped
BuildForcedVariations(decl, variationsByKey) ==
    [userID \in {u \in DOMAIN decl : decl[u] \in DOMAIN variationsByKey}
        |-> variationsByKey[decl[userID]]]

\* experiments[experiment.Key] = experiment keeping an entry already stored
PutIfAbsent(m, k, v) == IF k \in DOMAIN m THEN m ELSE Put(m, k, v)

\* experiments[experiment.Key] = experiment
StoreExperiment(m, k, v) == Put(m, k, v)

\* the loop over df.Experiments; the cache and the mutex of an experiment
\* live in the variables cachedVariations and mutex under its key
RECURSIVE BuildExperiments(_, _, _)
BuildExperiments(df, i, experiments) ==
    IF i > Len(df.Experiments) THEN [experiments |-> experiments, err |-> Nil]
    ELSE LET exp == df.Experiments[i]
             byID == VariationsByID(exp, df, 1, EmptyMap)
             byKey == VariationsByKey(exp, df, 1, EmptyMap)
             t == BuildTrafficAllocation(exp.TrafficAllocation, byID, 1, <<>>)
             experiment ==
                 [id |-> exp.ID, Key |-> exp.Key, layerID |-> exp.LayerID,
                  status |-> exp.Status, trafficAllocation |-> t.ta,
                  forcedVariations |-> BuildForcedVariations(exp.ForcedVariations, byKey),
                  project |-> ProjectRef(df)]
         IN  IF t.err # Nil THEN [experiments |-> EmptyMap, err |-> t.err]
             ELSE BuildExperiments(df, i + 1, StoreExperiment(experiments, exp.Key, experiment))

NewProjectFromDataFile(datafileJSON) ==
    LET u == json_Unmarshal(datafileJSON)
    IN  IF u.err # Nil THEN [project |-> ZeroProject, err |-> u.err]
        ELSE IF u.df.Version # supportedDatafileVersion
        THEN [project |-> ZeroProject,
              err |-> Ptr(<<"unsupported datafile version", u.df.Version>>)]
        ELSE LET r == BuildExperiments(u.df, 1, EmptyMap)
             IN  IF r.err # Nil THEN [project |-> ZeroProject, err |-> r.err]
                 ELSE [project |->
                           [Version |-> u.df.Version, Revision |-> u.df.Revision,
                            ProjectID |-> u.df.ProjectID, AccountID |-> u.df.AccountID,
                            experiments |-> r.experiments, RawDataFile |-> datafileJSON],
                       err |-> Nil]

-----------------------------------------------------------------------------
(* Inputs: user ids, experiment ids and datafiles *)

ppid1 == <<112, 112, 105, 100, 49>>                 \* "ppid1"

ppid2 == <<112, 112, 105, 100, 50>>                 \* "ppid2"

ppid3 == <<112, 112, 105, 100, 51>>                 \* "ppid3"

adxik99h == <<97, 100, 120, 105, 107, 57, 57, 104>> \* "adxik99h"

aavl4tzi == <<97, 97, 118, 108, 52, 116, 122, 105>> \* "aavl4tzi"

id1886780721 == <<49, 56, 56, 54, 55, 56, 48, 55, 50, 49>>

id1886780722 == <<49, 56, 56, 54, 55, 56, 48, 55, 50, 50>>

Var(id, key) == [ID |-> id, Key |-> key]

Alloc(id, end) == [EntityID |-> id, EndOfRange |-> end]

Decl(id, key, status, variations, ta, forced) ==
    [ID |-> id, Key |-> key, LayerID |-> "layer", Status |-> status,
     Variations |-> variations, TrafficAllocation |-> ta, ForcedVariations |-> forced]

Doc(version, account, experiments) ==
    [wellFormed |-> TRUE,
     df |-> [Version |-> version, Revision |-> "666", ProjectID |-> "1234",
             AccountID |-> account, Experiments |-> experiments]]

\* bytes the JSON decoder rejects, such as "{"
MalformedDoc == [wellFormed |-> FALSE, df |-> Nil]

TwoVariations == <<Var("abc123", "variation_1"), Var("def456", "variation_2")>>

\* ppid2 is forced to variation_2 although its bucket 4299 lies in variation_1;
\* ppid1 (5254) buckets into variation_2; ppid3 (5439) is beyond the last bound
DocA ==
    Doc("4", "00001",
        <<Decl(id1886780721, "an_experiment", "Running", TwoVariations,
               <<Alloc("abc123", 5000), Alloc("def456", 5300)>>,
               (ppid2 :> "variation_2")),
          Decl(id1886780722, "paused_experiment", "Paused",
               <<Var("ghi789", "variation_3")>>,
               <<Alloc("ghi789", 10000)>>,
               (ppid1 :> "variation_3"))>>)

\* both experiments run; in other_experiment ppid2 (2434) buckets into
\* variation_3 and ppid1 (4123), ppid3 (9072) are beyond the last bound
DocB ==
    Doc("4", "00001",
        <<Decl(id1886780721, "an_experiment", "Running", TwoVariations,
               <<Alloc("abc123", 5000), Alloc("def456", 10000)>>,
               EmptyMap),
          Decl(id1886780722, "other_experiment", "Running",
               <<Var("ghi789", "variation_3")>>,
               <<Alloc("ghi789", 3000)>>,
               (ppid3 :> "variation_3"))>>)

MainDocs == {DocA, DocB}

Range(f) == {f[x] : x \in DOMAIN f}

-----------------------------------------------------------------------------
(* One thread evaluating Experiment.getBucketValue, call after call *)

\* the number of getBucketValue calls of a behaviour
MaxHashCalls == 2

BucketingIDs == {ppid1, ppid2, ppid3, adxik99h, aavl4tzi, <<>>}

HashExperiments ==
    UNION {Range(NewProjectFromDataFile(d).project.experiments) : d \in MainDocs}

HashOff == [pc |-> "off"]

HashInit ==
    hs = [pc |-> "idle", e |-> Nil, bucketingID |-> <<>>, hashCode |-> <<0, 0>>,
          value |-> 0, n |-> 0, first |-> Nil]

\* the caller passes a receiver and a bucketing id; the result of the first
\* completed call is remembered in hs.first
HashCall(e, bucketingID) ==
    /\ hs.pc \in {"idle", "done"}
    /\ hs.n < MaxHashCalls
    /\ hs' = [hs EXCEPT !.pc = "hash", !.e = Ptr(e), !.bucketingID = bucketingID,
                        !.n = @ + 1,
                        !.first = IF hs.pc = "done" /\ hs.first = Nil
                                  THEN Ptr([e |-> Deref(hs.e),
                                            bucketingID |-> hs.bucketingID,
                                            value |-> hs.value])
                                  ELSE @]
    /\ UNCHANGED <<mainVars, fs, bs, es, cs>>

\* bucketingKey and hashCode
HashSum ==
    /\ hs.pc = "hash"
    /\ hs' = [hs EXCEPT !.pc = "ratio",
                        !.hashCode = Sum32WithSeed(BucketingKey(Deref(hs.e), hs.bucketingID),
                                                   hashSeed)]
    /\ UNCHANGED <<mainVars, fs, bs, es, cs>>

\* ratio and the returned int
HashReturn ==
    /\ hs.pc = "ratio"
    /\ hs' = [hs EXCEPT !.pc = "done",
                        !.value = getBucketValue(Deref(hs.e), hs.bucketingID)]
    /\ UNCHANGED <<mainVars, fs, bs, es, cs>>

-----------------------------------------------------------------------------
(* Datafiles for construction *)

\* the longest trafficAllocation list of a generated declaration
MaxAlloc == 2

RECURSIVE SeqsUpTo(_, _)
SeqsUpTo(S, n) ==
    IF n = 0 THEN {<<>>}
    ELSE SeqsUpTo(S, n - 1)
             \cup {Append(q, x) : q \in {p \in SeqsUpTo(S, n - 1) : Len(p) = n - 1}, x \in S}

\* zzz999 is declared by no experiment
AllocEntityIDs == {"abc123", "def456", "zzz999"}

AllocBounds == {3000, 10000, 12000}

AllocDecls == {Alloc(id, end) : id \in AllocEntityIDs, end \in AllocBounds}

\* variation_9 is declared by no experiment
ForcedDecls ==
    {EmptyMap,
     (ppid2 :> "variation_2"),
     (ppid2 :> "variation_2") @@ (ppid3 :> "variation_9")}

SingleDecls ==
    {Decl(id1886780721, "an_experiment", status, TwoVariations, ta, forced) :
        status \in {"Running", "Paused"},
        ta \in SeqsUpTo(AllocDecls, MaxAlloc),
        forced \in ForcedDecls}

\* declarations that share the key an_experiment, one of them with an
\* undeclared entity id, and one with another key
PairDecls ==
    {Decl(id1886780721, "an_experiment", "Running", TwoVariations,
          <<Alloc("abc123", 3000), Alloc("def456", 10000)>>, (ppid2 :> "variation_2")),
     Decl(id1886780722, "an_experiment", "Paused", TwoVariations,
          <<Alloc("def456", 10000)>>, EmptyMap),
     Decl(id1886780722, "other_experiment", "Running", <<Var("ghi789", "variation_3")>>,
          <<Alloc("ghi789", 3000)>>, EmptyMap),
     Decl(id1886780722, "other_experiment", "Running", <<Var("ghi789", "variation_3")>>,
          <<Alloc("ghi789", 3000), Alloc("abc123", 10000)>>, EmptyMap)}

DocVersions == {"4", "3"}

BuildDocs ==
    {MalformedDoc}
        \cup {Doc(v, "00001", <<>>) : v \in DocVersions}
        \cup {Doc(v, "00001", <<d>>) : v \in DocVersions, d \in SingleDecls}
        \cup {Doc(v, "00001", <<d1, d2>>) : v \in DocVersions, d1 \in PairDecls, d2 \in PairDecls}

-----------------------------------------------------------------------------
(* One evaluation of NewProjectFromDataFile *)

BuildOff == [pc |-> "off"]

BuildInit ==
    \E d \in BuildDocs :
        bs = [pc |-> "call", datafileJSON |-> d, project |-> ZeroProject, err |-> Nil]

BuildReturn ==
    /\ bs.pc = "call"
    /\ LET r == NewProjectFromDataFile(bs.datafileJSON)
       IN  bs' = [bs EXCEPT !.pc = "done", !.project = r.project, !.err = r.err]
    /\ UNCHANGED <<mainVars, hs, fs, es, cs>>

-----------------------------------------------------------------------------
(* One evaluation of Experiment.findBucket *)

\* the experiments of every project the generated datafiles build
FindExperiments ==
    UNION {Range(NewProjectFromDataFile(d).project.experiments) : d \in BuildDocs}

FindBuckets == {0, 9999} \cup AllocBounds \cup {b - 1 : b \in AllocBounds}

FindOff == [pc |-> "off"]

FindInit ==
    \E e \in FindExperiments, bucketValue \in FindBuckets :
        fs = [pc |-> "call", e |-> e, bucketValue |-> bucketValue, result |-> Nil]

FindReturn ==
    /\ fs.pc = "call"
    /\ fs' = [fs EXCEPT !.pc = "done", !.result = findBucket(fs.e, fs.bucketValue)]
    /\ UNCHANGED <<mainVars, hs, bs, es, cs>>

-----------------------------------------------------------------------------
(* Concurrent callers of Project.GetVariation and GetVariation(ctx, ...) *)

Threads == {"t1", "t2"}

Users == {ppid1, ppid2, ppid3}

\* the number of calls all threads start in a behaviour
MaxCalls == 3

\* make(map[string]Variation) for every experiment of the project
NewCachedVariations(p) == [k \in DOMAIN p.experiments |-> EmptyMap]

\* &sync.RWMutex{} for every experiment of the project
NewMutex(p) == [k \in DOMAIN p.experiments |-> [readers |-> {}, writer |-> Nil]]

\* Project.ToContext: the projectContext placed in the context; its embedded
\* Project is the variable project, whose maps and mutexes the copy shares
ToContext(p, userID) == [userID |-> userID, impressions |-> <<>>, mutex |-> Nil]

\* Variation{}
ZeroVariation == [id |-> "", Key |-> "", experiment |-> Nil]

NewImpression(variation, userID, timestamp) ==
    [Variation |-> variation, UserID |-> userID, Timestamp |-> timestamp]

ZeroLocal ==
    [via |-> "", experimentName |-> "", userID |-> <<>>, timestamp |-> 0,
     path |-> "", variation |-> Nil, impression |-> Nil, ret |-> ZeroVariation,
     appended |-> 0, options |-> <<>>, seen |-> 0, events |-> Nil]

MainOff ==
    /\ project = ZeroProject
    /\ cachedVariations = EmptyMap
    /\ mutex = EmptyMap
    /\ pc = EmptyMap
    /\ local = EmptyMap
    /\ calls = 0
    /\ projectCtx = Nil
    /\ returned = {}
    /\ log = Nil

\* the datafile a behaviour builds its project from, with the user of the
\* session made from it: ppid2 is forced in DocA, ppid1 is bucketed in DocB
MainSetups == {<<DocA, ppid2>>, <<DocB, ppid1>>}

\* the instants time.Now() returns, in nanoseconds
Times == {1500000}

MainInit ==
    \E setup \in MainSetups, d \in MainDocs, sessionUser \in Users :
        /\ d = setup[1]
        /\ sessionUser = setup[2]
        /\ project = NewProjectFromDataFile(d).project
        /\ cachedVariations = NewCachedVariations(NewProjectFromDataFile(d).project)
        /\ mutex = NewMutex(NewProjectFromDataFile(d).project)
        /\ pc = [t \in Threads |-> "idle"]
        /\ local = [t \in Threads |-> ZeroLocal]
        /\ calls = 0
        /\ projectCtx = ToContext(NewProjectFromDataFile(d).project, sessionUser)
        /\ returned = {}
        /\ log = [recorded |-> <<>>, drained |-> <<>>, drains |-> 0]

ExperimentNames == DOMAIN project.experiments \cup {"no_experiment"}

\* StartPath without the look into forcedVariations
StartPathNoForced(p, experimentName, userID) ==
    IF experimentName \notin DOMAIN p.experiments THEN "missing"
    ELSE IF p.experiments[experimentName].status # runningStatus THEN "notRunning"
    ELSE "lookup"

\* StartPath looking into forcedVariations before it looks at the status
StartPathForcedFirst(p, experimentName, userID) ==
    IF experimentName \notin DOMAIN p.experiments THEN "missing"
    ELSE IF userID \in DOMAIN p.experiments[experimentName].forcedVariations THEN "forced"
    ELSE IF p.experiments[experimentName].status # runningStatus THEN "notRunning"
    ELSE "lookup"

\* lines 49-58 of Project.GetVariation: which way the call goes before it
\* touches the cache
StartPath(p, experimentName, userID) ==
    IF experimentName \notin DOMAIN p.experiments THEN "missing"
    ELSE IF p.experiments[experimentName].status # runningStatus THEN "notRunning"
    ELSE IF userID \in DOMAIN p.experiments[experimentName].forcedVariations THEN "forced"
    ELSE "lookup"

\* Return handing the variation to the caller of GetVariation(ctx, ...)
\* without recording the impression
ReturnNoRecord(t, l, impression) ==
    /\ pc' = [pc EXCEPT ![t] = "done"]
    /\ local' = [local EXCEPT ![t] =
                    [l EXCEPT !.impression = impression,
                              !.ret = IF l.via = "project" \/ impression = Nil
                                      THEN ZeroVariation
                                      ELSE Deref(impression).Variation]]
    /\ returned' = IF impression = Nil THEN returned
                   ELSE returned \cup {<<l.experimentName, l.userID,
                                         Deref(impression).Variation>>}

\* the return of Project.GetVariation to its caller: a direct caller gets the
\* impression; GetVariation(ctx, ...) returns Variation{} on nil and goes on to
\* record the impression otherwise
Return(t, l, impression) ==
    IF l.via = "project"
    THEN /\ pc' = [pc EXCEPT ![t] = "done"]
         /\ local' = [local EXCEPT ![t] = [l EXCEPT !.impression = impression]]
         /\ returned' = IF impression = Nil THEN returned
                        ELSE returned \cup {<<l.experimentName, l.userID,
                                              Deref(impression).Variation>>}
    ELSE IF impression = Nil
    THEN /\ pc' = [pc EXCEPT ![t] = "done"]
         /\ local' = [local EXCEPT ![t] = [l EXCEPT !.impression = impression,
                                                     !.ret = ZeroVariation]]
         /\ returned' = returned
    ELSE /\ pc' = [pc EXCEPT ![t] = "ctxLock"]
         /\ local' = [local EXCEPT ![t] = [l EXCEPT !.impression = impression]]
         /\ returned' = returned

\* A thread starts a call: Project.GetVariation(experimentName, userID) when
\* via is "project", GetVariation(ctx, experimentName) on the session context
\* when via is "ctx" (the user is then the session's).  time.Now() returns
\* now.  The step runs the call up to its first use of the cache.
Start(t, via, experimentName, userID, now) ==
    /\ pc[t] \in {"idle", "done"}
    /\ calls < MaxCalls
    /\ via = "ctx" => userID = projectCtx.userID
    /\ calls' = calls + 1
    /\ LET path == StartPath(project, experimentName, userID)
           l == [ZeroLocal EXCEPT !.via = via, !.experimentName = experimentName,
                                  !.userID = userID, !.timestamp = now,
                                  !.path = path]
       IN  IF path = "lookup"
           THEN /\ pc' = [pc EXCEPT ![t] = "rlock"]
                /\ local' = [local EXCEPT ![t] = l]
                /\ returned' = returned
           ELSE Return(t, l,
                       IF path = "forced"
                       THEN Ptr(NewImpression(
                                project.experiments[experimentName].forcedVariations[userID],
                                userID, now))
                       ELSE Nil)
    /\ UNCHANGED <<hs, fs, bs, es, cs, log, project, cachedVariations, mutex, projectCtx>>

\* GetVariation(ctx, ...) on a context that carries no session: Variation{}
StartBackground(t) ==
    /\ pc[t] \in {"idle", "done"}
    /\ calls < MaxCalls
    /\ calls' = calls + 1
    /\ pc' = [pc EXCEPT ![t] = "done"]
    /\ local' = [local EXCEPT ![t] = [ZeroLocal EXCEPT !.via = "background",
                                                        !.path = "noSession"]]
    /\ UNCHANGED <<hs, fs, bs, es, cs, log, project, cachedVariations, mutex, projectCtx, returned>>

\* RWMutexCanLock looking for another writer only
RWMutexCanLockAmongReaders(m) == m.writer = Nil

\* Lock() on a sync.RWMutex returns when no goroutine holds it for reading or
\* for writing
RWMutexCanLock(m) == m.writer = Nil /\ m.readers = {}

\* RLock() on a sync.RWMutex returns when no goroutine holds it for writing
RWMutexCanRLock(m) == m.writer = Nil

\* an Unlock() written in front of the return: a panic leaves the lock held
UnlockOnReturnOnly(holder, panicking) == IF panicking THEN holder ELSE Nil

\* the holder of a lock after the deferred Unlock() of the call that holds
\* it: deferred calls run when the function returns and when it panics
DeferredUnlock(holder, panicking) == Nil

\* experiment.mutex.RLock() and the read of cachedVariations[userID]
RLock(t) ==
    /\ pc[t] = "rlock"
    /\ RWMutexCanRLock(mutex[local[t].experimentName])
    /\ mutex' = [mutex EXCEPT ![local[t].experimentName].readers = @ \cup {t}]
    /\ local' = [local EXCEPT ![t].variation =
                    IF local[t].userID \in DOMAIN cachedVariations[local[t].experimentName]
                    THEN Ptr(cachedVariations[local[t].experimentName][local[t].userID])
                    ELSE Nil]
    /\ pc' = [pc EXCEPT ![t] = "runlock"]
    /\ UNCHANGED <<hs, fs, bs, es, cs, log, project, cachedVariations, calls, projectCtx, returned>>

\* experiment.mutex.RUnlock(), and the return of the cached variation
RUnlock(t) ==
    /\ pc[t] = "runlock"
    /\ mutex' = [mutex EXCEPT ![local[t].experimentName].readers = @ \ {t}]
    /\ IF local[t].variation # Nil
       THEN Return(t, [local[t] EXCEPT !.path = "cached"],
                   Ptr(NewImpression(Deref(local[t].variation), local[t].userID,
                                     local[t].timestamp)))
       ELSE /\ pc' = [pc EXCEPT ![t] = "compute"]
            /\ UNCHANGED <<local, returned>>
    /\ UNCHANGED <<hs, fs, bs, es, cs, log, project, cachedVariations, calls, projectCtx>>

\* variation := experiment.findBucket(experiment.getBucketValue(userID))
Compute(t) ==
    /\ pc[t] = "compute"
    /\ LET experiment == project.experiments[local[t].experimentName]
       IN  local' = [local EXCEPT ![t].variation =
                        findBucket(experiment, getBucketValue(experiment, local[t].userID)),
                                  ![t].path = "computed"]
    /\ pc' = [pc EXCEPT ![t] = "lock"]
    /\ UNCHANGED <<hs, fs, bs, es, cs, log, project, cachedVariations, mutex, calls, projectCtx, returned>>

\* CacheStore storing cachedVariation, the zero value of the failed lookup
CacheStoreCachedVariation(cache, userID, variation) == Put(cache, userID, ZeroVariation)

\* CacheStore leaving the cache as it was
CacheStoreSkipped(cache, userID, variation) == cache

\* cachedVariations[userID] = *variation
CacheStore(cache, userID, variation) == Put(cache, userID, Deref(variation))

\* ProjectAfterStore with the store going into the forced variations of the
\* experiment
ProjectAfterStoreForced(p, experimentName, userID, variation) ==
    [p EXCEPT !.experiments[experimentName].forcedVariations =
                  Put(@, userID, Deref(variation))]

\* the project after experiment.cachedVariations[userID] = *variation:
\* experiment is a copy of p.experiments[experimentName] and the store goes
\* into the map the copy shares with it, so no field of p is assigned
ProjectAfterStore(p, experimentName, userID, variation) == p

\* experiment.mutex.Lock(), defer Unlock(), and the store into the cache;
\* dereferencing a nil variation panics before anything is stored
Lock(t) ==
    /\ pc[t] = "lock"
    /\ RWMutexCanLock(mutex[local[t].experimentName])
    /\ mutex' = [mutex EXCEPT ![local[t].experimentName].writer = Ptr(t)]
    /\ IF local[t].variation = Nil
       THEN /\ pc' = [pc EXCEPT ![t] = "panicUnlock"]
            /\ UNCHANGED <<cachedVariations, project>>
       ELSE /\ pc' = [pc EXCEPT ![t] = "unlock"]
            /\ cachedVariations' =
                   [cachedVariations EXCEPT ![local[t].experimentName] =
                        CacheStore(@, local[t].userID, local[t].variation)]
            /\ project' = ProjectAfterStore(project, local[t].experimentName,
                                            local[t].userID, local[t].variation)
    /\ UNCHANGED <<hs, fs, bs, es, cs, log, local, calls, projectCtx, returned>>

\* the deferred experiment.mutex.Unlock() and the return of the impression,
\* or the panic leaving the call
Unlock(t) ==
    /\ pc[t] \in {"unlock", "panicUnlock"}
    /\ mutex' = [mutex EXCEPT ![local[t].experimentName].writer =
                     DeferredUnlock(@, pc[t] = "panicUnlock")]
    /\ IF pc[t] = "panicUnlock"
       THEN /\ pc' = [pc EXCEPT ![t] = "panicked"]
            /\ UNCHANGED <<local, returned>>
       ELSE Return(t, local[t],
                   Ptr(NewImpression(Deref(local[t].variation), local[t].userID,
                                     local[t].timestamp)))
    /\ UNCHANGED <<hs, fs, bs, es, cs, log, project, cachedVariations, calls, projectCtx>>

\* a sync.Mutex that every caller finds free
MutexFreeAlways(m) == TRUE

\* Lock() on a sync.Mutex returns when no goroutine holds it
MutexFree(m) == m = Nil

\* projectCtx.mutex.Lock() and the append of the impression
CtxLock(t) ==
    /\ pc[t] = "ctxLock"
    /\ MutexFree(projectCtx.mutex)
    /\ projectCtx' = [projectCtx EXCEPT !.mutex = Ptr(t),
                         !.impressions = Append(@, Deref(local[t].impression))]
    /\ log' = [log EXCEPT !.recorded = Append(@, Deref(local[t].impression))]
    /\ local' = [local EXCEPT ![t].appended = @ + 1]
    /\ pc' = [pc EXCEPT ![t] = "ctxUnlock"]
    /\ UNCHANGED <<hs, fs, bs, es, cs, project, cachedVariations, mutex, calls, returned>>

\* the deferred projectCtx.mutex.Unlock() and return impression.Variation
CtxUnlock(t) ==
    /\ pc[t] = "ctxUnlock"
    /\ projectCtx' = [projectCtx EXCEPT !.mutex = DeferredUnlock(@, FALSE)]
    /\ pc' = [pc EXCEPT ![t] = "done"]
    /\ local' = [local EXCEPT ![t].ret = Deref(local[t].impression).Variation]
    /\ returned' = returned \cup {<<local[t].experimentName, local[t].userID,
                                    Deref(local[t].impression).Variation>>}
    /\ UNCHANGED <<hs, fs, bs, es, cs, log, project, cachedVariations, mutex, calls>>

-----------------------------------------------------------------------------
(* Events: src/reporter.go *)

packagePath == "github.com/spothero/optimizely-sdk-go"

\* var clientVersion, unset
clientVersion == ""

\* Events{}
ZeroEvents ==
    [AccountID |-> "", AnonymizeIP |-> FALSE, ClientName |-> "", ClientVersion |-> Nil,
     EnrichDecisions |-> FALSE, Visitors |-> <<>>]

\* the quotient of Go's integer division, which truncates toward zero
Quo(a, b) == IF a >= 0 THEN a \div b ELSE -((-a) \div b)

\* v.Timestamp.UTC().UnixNano() / int64(time.Millisecond/time.Nanosecond),
\* an instant being its nanoseconds since the epoch
UnixMilli(timestamp) == Quo(timestamp, 1000000)

\* toVisitor leaving the timestamp in nanoseconds
toVisitorNanoseconds(v, newUUID) ==
    [ID |-> v.UserID,
     Snapshots |-> <<[Decisions |-> <<[CampaignID |-> v.Variation.experiment.layerID,
                                       ExperimentID |-> v.Variation.experiment.id,
                                       VariationID |-> v.Variation.id]>>,
                      Events |-> <<[EntityID |-> v.Variation.experiment.layerID,
                                    Type |-> "campaign_activated",
                                    Timestamp |-> v.Timestamp,
                                    UUID |-> newUUID]>>]>>]

\* Impression.toVisitor; newUUID is what uuid.New().String() returns
toVisitor(v, newUUID) ==
    [ID |-> v.UserID,
     Snapshots |-> <<[Decisions |-> <<[CampaignID |-> v.Variation.experiment.layerID,
                                       ExperimentID |-> v.Variation.experiment.id,
                                       VariationID |-> v.Variation.id]>>,
                      Events |-> <<[EntityID |-> v.Variation.experiment.layerID,
                                    Type |-> "campaign_activated",
                                    Timestamp |-> UnixMilli(v.Timestamp),
                                    UUID |-> newUUID]>>]>>]

\* the options of NewEvents, as the values their closures hold
ActivatedImpression(i) == [option |-> "ActivatedImpression", arg |-> i]

EnrichDecisions(enrich) == [option |-> "EnrichDecisions", arg |-> enrich]

ClientName(name) == [option |-> "ClientName", arg |-> name]

ClientVersion(version) == [option |-> "ClientVersion", arg |-> version]

AnonymizeIP(anonymize) == [option |-> "AnonymizeIP", arg |-> anonymize]

\* the closure ActivatedImpression(i) returns, applied to e
Activate(e, i, newUUID) ==
    IF e.AccountID # "" /\ e.AccountID # i.Variation.experiment.project.AccountID
    THEN [events |-> e,
          err |-> Ptr("activated variations must all be in the same account")]
    ELSE [events |-> [e EXCEPT !.AccountID = i.Variation.experiment.project.AccountID,
                               !.Visitors = Append(@, toVisitor(i, newUUID))],
          err |-> Nil]

\* option(&events)
ApplyOption(e, o, newUUID) ==
    IF o.option = "ActivatedImpression" THEN Activate(e, o.arg, newUUID)
    ELSE IF o.option = "EnrichDecisions"
    THEN [events |-> [e EXCEPT !.EnrichDecisions = o.arg], err |-> Nil]
    ELSE IF o.option = "ClientName"
    THEN [events |-> [e EXCEPT !.ClientName = o.arg], err |-> Nil]
    ELSE IF o.option = "ClientVersion"
    THEN [events |-> [e EXCEPT !.ClientVersion = Ptr(o.arg)], err |-> Nil]
    ELSE [events |-> [e EXCEPT !.AnonymizeIP = o.arg], err |-> Nil]

\* the loop over options: stops at the first option that returns an error;
\* uuids[n] is what uuid.New() returns to option n
RECURSIVE ApplyOptions(_, _, _, _)
ApplyOptions(options, n, e, uuids) ==
    IF n > Len(options) THEN [events |-> e, err |-> Nil]
    ELSE LET r == ApplyOption(e, options[n], uuids[n])
         IN  IF r.err # Nil THEN r
             ELSE ApplyOptions(options, n + 1, r.events, uuids)

\* NewEvents dropping the check for an empty list of visitors
NewEventsNoVisitorCheck(options, uuids) ==
    LET r == ApplyOptions(options, 1,
                 [AccountID |-> "", AnonymizeIP |-> TRUE, ClientName |-> packagePath,
                  ClientVersion |-> Ptr(clientVersion), EnrichDecisions |-> TRUE,
                  Visitors |-> <<>>],
                 uuids)
    IN  IF r.err # Nil THEN [events |-> ZeroEvents, err |-> r.err]
        ELSE [events |-> [r.events EXCEPT !.ClientVersion =
                              IF Deref(@) = "" THEN Nil ELSE @],
              err |-> Nil]

NewEvents(options, uuids) ==
    LET r == ApplyOptions(options, 1,
                 [AccountID |-> "", AnonymizeIP |-> TRUE, ClientName |-> packagePath,
                  ClientVersion |-> Ptr(clientVersion), EnrichDecisions |-> TRUE,
                  Visitors |-> <<>>],
                 uuids)
    IN  IF r.err # Nil THEN [events |-> ZeroEvents, err |-> r.err]
        ELSE IF Len(r.events.Visitors) = 0
        THEN [events |-> ZeroEvents,
              err |-> Ptr("cannot build event with no activated variations")]
        ELSE [events |-> [r.events EXCEPT !.ClientVersion =
                              IF Deref(@) = "" THEN Nil ELSE @],
              err |-> Nil]

-----------------------------------------------------------------------------
(* One evaluation of NewEvents *)

\* the longest list of options passed to NewEvents
MaxOptions == 3

\* a datafile of another account
DocOther ==
    Doc("4", "00002",
        <<Decl(id1886780722, "other_experiment", "Running",
               <<Var("ghi789", "variation_3")>>, <<Alloc("ghi789", 3000)>>, EmptyMap)>>)

\* a datafile that names no account: AccountID is ""
DocNoAccount ==
    Doc("4", "",
        <<Decl(id1886780721, "an_experiment", "Running", TwoVariations,
               <<Alloc("abc123", 5000), Alloc("def456", 10000)>>, EmptyMap)>>)

\* the variation of the i-th traffic allocation entry of an experiment of the
\* project built from doc
VariationOf(doc, key, i) ==
    NewProjectFromDataFile(doc).project.experiments[key].trafficAllocation[i].Variation

\* impressions Project.GetVariation returns on these projects, 1.5 ms and
\* 2.999999 ms after the epoch
EventImpressions ==
    {NewImpression(VariationOf(DocA, "an_experiment", 1), ppid2, 1500000),
     NewImpression(VariationOf(DocB, "other_experiment", 1), ppid2, 2999999),
     NewImpression(VariationOf(DocOther, "other_experiment", 1), ppid2, 1500000),
     NewImpression(VariationOf(DocNoAccount, "an_experiment", 2), ppid1, 2999999)}

EventOptions ==
    {ActivatedImpression(i) : i \in EventImpressions}
        \cup {EnrichDecisions(FALSE), ClientName("client"), ClientVersion("1.0.0"),
              ClientVersion(""), AnonymizeIP(FALSE)}

\* the strings uuid.New().String() returns
UUIDs == {"uuid-a", "uuid-b"}

EventsOff == [pc |-> "off"]

EventsInit ==
    \E options \in SeqsUpTo(EventOptions, MaxOptions) :
        es = [pc |-> "call", options |-> options, uuids |-> <<>>,
              events |-> ZeroEvents, err |-> Nil]

NewEventsReturn ==
    /\ es.pc = "call"
    /\ \E uuids \in [1..Len(es.options) -> UUIDs] :
          LET r == NewEvents(es.options, uuids)
          IN  es' = [es EXCEPT !.pc = "done", !.uuids = uuids,
                               !.events = r.events, !.err = r.err]
    /\ UNCHANGED <<mainVars, hs, fs, bs, cs>>

-----------------------------------------------------------------------------
(* EventsFromContext on the session, concurrent with GetVariation(ctx, ...) *)

\* the number of EventsFromContext calls all threads start in a behaviour
MaxDrains == 2

\* the option lists a caller passes to EventsFromContext: none, a client
\* name, or an impression it holds from a project of the session's account,
\* of another account, or of no account
DrainOptions ==
    {<<>>, <<ClientName("client")>>,
     <<ActivatedImpression(NewImpression(VariationOf(DocB, "other_experiment", 1),
                                         ppid2, 2999999))>>,
     <<ActivatedImpression(NewImpression(VariationOf(DocOther, "other_experiment", 1),
                                         ppid2, 1500000))>>,
     <<ActivatedImpression(NewImpression(VariationOf(DocNoAccount, "an_experiment", 2),
                                         ppid1, 2999999))>>}

\* what uuid.New().String() returns to the callers of the session
SessionUUIDs == {"uuid-a"}

\* the session of user ppid1 on the project of DocB, where the user buckets
\* into variation_2 of an_experiment and is beyond the last bound of
\* other_experiment
SessionInit ==
    /\ project = NewProjectFromDataFile(DocB).project
    /\ cachedVariations = NewCachedVariations(NewProjectFromDataFile(DocB).project)
    /\ mutex = NewMutex(NewProjectFromDataFile(DocB).project)
    /\ pc = [t \in Threads |-> "idle"]
    /\ local = [t \in Threads |-> ZeroLocal]
    /\ calls = 0
    /\ projectCtx = ToContext(NewProjectFromDataFile(DocB).project, ppid1)
    /\ returned = {}
    /\ log = [recorded |-> <<>>, drained |-> <<>>, drains |-> 0]

\* EventsFromContext without the return on an empty list of impressions
DrainPathNoLenCheck(impressions, options, uuids) ==
    LET r == NewEvents(options \o [n \in 1..Len(impressions) |->
                                      ActivatedImpression(impressions[n])],
                       uuids)
    IN  IF r.err # Nil THEN [events |-> Nil, panic |-> r.err, path |-> "panic"]
        ELSE [events |-> Ptr(r.events), panic |-> Nil, path |-> "events"]

\* lines 236-254 of EventsFromContext, under the lock: nil on an empty list,
\* else NewEvents on the caller's options followed by one ActivatedImpression
\* per recorded impression, and a panic on its error
DrainPath(impressions, options, uuids) ==
    IF Len(impressions) = 0 THEN [events |-> Nil, panic |-> Nil, path |-> "nil"]
    ELSE LET r == NewEvents(options \o [n \in 1..Len(impressions) |->
                                           ActivatedImpression(impressions[n])],
                            uuids)
         IN  IF r.err # Nil THEN [events |-> Nil, panic |-> r.err, path |-> "panic"]
             ELSE [events |-> Ptr(r.events), panic |-> Nil, path |-> "events"]

\* A thread calls EventsFromContext(ctx, options...) on the session context:
\* projectCtx.mutex.Lock(), defer Unlock(), and the call up to its return
\* value or panic, all under the lock
DrainLock(t, options) ==
    /\ pc[t] \in {"idle", "done"}
    /\ log.drains < MaxDrains
    /\ MutexFree(projectCtx.mutex)
    /\ \E uuids \in [1..(Len(options) + Len(projectCtx.impressions)) -> SessionUUIDs] :
          LET r == DrainPath(projectCtx.impressions, options, uuids)
          IN  /\ local' = [local EXCEPT ![t] =
                              [ZeroLocal EXCEPT !.via = "drain", !.options = options,
                                                !.userID = projectCtx.userID,
                                                !.seen = Len(projectCtx.impressions),
                                                !.events = r.events, !.path = r.path]]
              /\ pc' = [pc EXCEPT ![t] = IF r.path = "panic" THEN "drainPanicUnlock"
                                         ELSE IF r.path = "nil" THEN "drainUnlock"
                                         ELSE "drainReset"]
    /\ projectCtx' = [projectCtx EXCEPT !.mutex = Ptr(t)]
    /\ log' = [log EXCEPT !.drains = @ + 1]
    /\ UNCHANGED <<hs, fs, bs, es, cs, project, cachedVariations, mutex, calls, returned>>

\* projectCtx.impressions = make([]Impression, 0); the history records the
\* batch with the options of its caller
DrainReset(t) ==
    /\ pc[t] = "drainReset"
    /\ projectCtx' = [projectCtx EXCEPT !.impressions = <<>>]
    /\ log' = [log EXCEPT !.drained = Append(@, [events |-> Deref(local[t].events),
                                                 options |-> local[t].options])]
    /\ pc' = [pc EXCEPT ![t] = "drainUnlock"]
    /\ UNCHANGED <<hs, fs, bs, es, cs, project, cachedVariations, mutex, local, calls,
                   returned>>

\* the deferred projectCtx.mutex.Unlock(), and the return of nil or &events,
\* or the panic leaving the call
DrainUnlock(t) ==
    /\ pc[t] \in {"drainUnlock", "drainPanicUnlock"}
    /\ projectCtx' = [projectCtx EXCEPT !.mutex =
                         DeferredUnlock(@, pc[t] = "drainPanicUnlock")]
    /\ pc' = [pc EXCEPT ![t] = IF pc[t] = "drainPanicUnlock" THEN "panicked" ELSE "done"]
    /\ UNCHANGED <<hs, fs, bs, es, cs, log, project, cachedVariations, mutex, local, calls,
                   returned>>

\* EventsFromContext on a context that carries no session: nil, before any
\* option is looked at
DrainBackground(t, options) ==
    /\ pc[t] \in {"idle", "done"}
    /\ log.drains < MaxDrains
    /\ log' = [log EXCEPT !.drains = @ + 1]
    /\ pc' = [pc EXCEPT ![t] = "done"]
    /\ local' = [local EXCEPT ![t] = [ZeroLocal EXCEPT !.via = "drainBackground",
                                                        !.path = "noSession"]]
    /\ UNCHANGED <<hs, fs, bs, es, cs, project, cachedVariations, mutex, calls, projectCtx,
                   returned>>

-----------------------------------------------------------------------------
(* The api client: src/api/api.go *)

\* Environment{}
ZeroEnvironment == [ID |-> 0, Key |-> "", Name |-> "", ProjectID |-> 0]

\* json.NewDecoder(response.Body).Decode(&environmentsInResponse): a response
\* body is either bytes the decoder rejects, or the list it decodes to
DecodeEnvironments(response) ==
    IF response.wellFormed THEN [environments |-> response.body, err |-> Nil]
    ELSE [environments |-> <<>>, err |-> Ptr("error decoding environments in response")]

\* the loop over responses of GetEnvironmentsByProjectID: stops at the first
\* body that does not decode
RECURSIVE AppendEnvironments(_, _, _)
AppendEnvironments(responses, n, environments) ==
    IF n > Len(responses) THEN [environments |-> environments, err |-> Nil]
    ELSE LET d == DecodeEnvironments(responses[n])
         IN  IF d.err # Nil THEN [environments |-> <<>>, err |-> d.err]
             ELSE AppendEnvironments(responses, n + 1, environments \o d.environments)

\* GetEnvironmentsByProjectID on what sendPaginatedAPIRequest returned
GetEnvironmentsByProjectID(paginated) ==
    IF paginated.err # Nil THEN [environments |-> <<>>, err |-> paginated.err]
    ELSE AppendEnvironments(paginated.responses, 1, <<>>)

\* the loop of GetEnvironmentByProjectID: the first environment whose Key is
\* key
RECURSIVE FirstWithKey(_, _, _)
FirstWithKey(environments, n, key) ==
    IF n > Len(environments) THEN 0
    ELSE IF environments[n].Key = key THEN n
    ELSE FirstWithKey(environments, n + 1, key)

\* client.GetEnvironmentByProjectID on what sendPaginatedAPIRequest returned
\* for the environments of the project
GetEnvironmentByProjectID(key, projectID, paginated) ==
    LET r == GetEnvironmentsByProjectID(paginated)
    IN  IF r.err # Nil THEN [environment |-> ZeroEnvironment, err |-> r.err]
        ELSE LET n == FirstWithKey(r.environments, 1, key)
             IN  IF n = 0
                 THEN [environment |-> ZeroEnvironment,
                       err |-> Ptr(<<"could not find environment with key", key,
                                     projectID>>)]
                 ELSE [environment |-> r.environments[n], err |-> Nil]

-----------------------------------------------------------------------------
(* One call of GetEnvironmentByProjectID *)

\* the most pages the API answers a listing with
MaxPages == 2

ProjectIDs == {3000}

\* the environments of project 3000: the key of the first is its name in
\* lower case, and the name of the third is the key of the first
ClientEnvironments ==
    <<[ID |-> 1, Key |-> "staging", Name |-> "Staging", ProjectID |-> 3000],
      [ID |-> 2, Key |-> "production", Name |-> "production", ProjectID |-> 3000],
      [ID |-> 3, Key |-> "development", Name |-> "staging", ProjectID |-> 3000]>>

\* the response bodies of one page: lists of environments, and a body that is
\* no JSON list
ClientResponses ==
    {[wellFormed |-> FALSE, body |-> <<>>],
     [wellFormed |-> TRUE, body |-> <<>>],
     [wellFormed |-> TRUE, body |-> <<ClientEnvironments[1]>>],
     [wellFormed |-> TRUE, body |-> <<ClientEnvironments[2], ClientEnvironments[3]>>],
     [wellFormed |-> TRUE, body |-> <<ClientEnvironments[3], ClientEnvironments[1]>>]}

EnvironmentKeys == {"staging", "Staging", "production", "bad environment"}

ClientOff == [pc |-> "off"]

ClientInit ==
    \E key \in EnvironmentKeys, projectID \in ProjectIDs :
        cs = [pc |-> "call", key |-> key, projectID |-> projectID,
              paginated |-> [responses |-> <<>>, err |-> Nil],
              environment |-> ZeroEnvironment, err |-> Nil]

\* sendPaginatedAPIRequest returns the pages of the listing, one at least
ClientResponds(responses) ==
    /\ cs.pc = "call"
    /\ cs' = [cs EXCEPT !.pc = "responded",
                        !.paginated = [responses |-> responses, err |-> Nil]]
    /\ UNCHANGED <<mainVars, hs, fs, bs, es>>

\* sendPaginatedAPIRequest returns an error
ClientFails ==
    /\ cs.pc = "call"
    /\ cs' = [cs EXCEPT !.pc = "responded",
                        !.paginated = [responses |-> <<>>, err |-> Ptr("request failed")]]
    /\ UNCHANGED <<mainVars, hs, fs, bs, es>>

\* GetEnvironmentByProjectID returns
ClientReturn ==
    /\ cs.pc = "responded"
    /\ LET r == GetEnvironmentByProjectID(cs.key, cs.projectID, cs.paginated)
       IN  cs' = [cs EXCEPT !.pc = "done", !.environment = r.environment, !.err = r.err]
    /\ UNCHANGED <<mainVars, hs, fs, bs, es>>

-----------------------------------------------------------------------------
(* The paginated request of the api client: sendPaginatedAPIRequest *)

\* one entry of a parsed link header: <URL>; rel="Rel"
Link(url, rel) == [URL |-> url, Rel |-> rel]

\* links.FilterByRel(rel) keeping every link, whatever its rel
FilterByRelAny(links, rel) == links

\* links.FilterByRel(rel): the links of the header whose rel is rel, in the
\* order of the header
RECURSIVE FilterByRel(_, _)
FilterByRel(links, rel) ==
    IF links = <<>> THEN <<>>
    ELSE IF Head(links).Rel = rel
         THEN <<Head(links)>> \o FilterByRel(SubSeq(links, 2, Len(links)), rel)
         ELSE FilterByRel(SubSeq(links, 2, Len(links)), rel)

\* sendAPIRequest on what the transport answers for uri: the transport's
\* error, an error for a status outside 200..299, the response otherwise
sendAPIRequest(reply, uri) ==
    IF reply.err # Nil
    THEN [resp |-> Nil, err |-> Ptr("error making Optimizely API request")]
    ELSE IF reply.StatusCode < 200 \/ reply.StatusCode >= 300
    THEN [resp |-> Nil, err |-> Ptr(<<"received status from Optimizely API", reply.StatusCode>>)]
    ELSE [resp |-> Ptr([URL |-> uri, StatusCode |-> reply.StatusCode, Link |-> reply.Link]),
          err |-> Nil]

\* the number of requests and responses of one call the model keeps
MaxRequests == 4

PageURLs == {"https://fake.url", "https://fake.url?page=2", "https://fake.url?page=3"}

\* the link headers a page carries: none, a next link, a prev link, a prev
\* link in front of a next link, and two next links
LinkHeaders ==
    {<<>>} \cup {<<Link(u, "next")>> : u \in PageURLs}
           \cup {<<Link("https://fake.url", "prev")>>,
                 <<Link("https://fake.url", "prev"), Link("https://fake.url?page=3", "next")>>,
                 <<Link("https://fake.url?page=2", "next"), Link("https://fake.url", "next")>>}

\* what the transport answers for one URL
Replies ==
    {[err |-> Ptr("http error"), StatusCode |-> 0, Link |-> <<>>],
     [err |-> Nil, StatusCode |-> 404, Link |-> <<>>]}
    \cup {[err |-> Nil, StatusCode |-> 200, Link |-> h] : h \in LinkHeaders}

\* a server answers every URL the same way each time
Servers == [PageURLs -> Replies]

PagesInit ==
    \E server \in Servers, uri \in {"https://fake.url"} :
        cs = [pc |-> "request", server |-> server, uri |-> uri, curURL |-> uri,
              responses |-> <<>>, requested |-> <<>>, unkept |-> 0,
              result |-> [responses |-> <<>>, err |-> Nil]]

\* responses = append(responses, resp), as far as the model keeps them
Kept(list, x) == IF Len(list) < MaxRequests THEN Append(list, x) ELSE list

\* the requests the model does not keep: none (0), or an odd (1) or even (2)
\* number of them
Unkept(list, n) == IF Len(list) < MaxRequests THEN 0 ELSE IF n = 1 THEN 2 ELSE 1

\* one turn of the loop of sendPaginatedAPIRequest: the request of curURL,
\* the return of the error, the append of the response, the return of the
\* responses when the header has no next link, the move to the first next link
PageRequest ==
    /\ cs.pc = "request"
    /\ LET r == sendAPIRequest(cs.server[cs.curURL], cs.curURL)
           requested == Kept(cs.requested, cs.curURL)
           unkept == Unkept(cs.requested, cs.unkept)
       IN  IF r.err # Nil
           THEN cs' = [cs EXCEPT !.pc = "done", !.requested = requested, !.unkept = unkept,
                                 !.result = [responses |-> <<>>, err |-> r.err]]
           ELSE LET responses == Kept(cs.responses, Deref(r.resp))
                    next == FilterByRel(Deref(r.resp).Link, "next")
                IN  IF Len(next) = 0
                    THEN cs' = [cs EXCEPT !.pc = "done", !.requested = requested,
                                          !.unkept = unkept, !.responses = responses,
                                          !.result = [responses |-> responses, err |-> Nil]]
                    ELSE cs' = [cs EXCEPT !.requested = requested, !.unkept = unkept,
                                          !.responses = responses,
                                          !.curURL = next[1].URL]
    /\ UNCHANGED <<mainVars, hs, fs, bs, es>>

-----------------------------------------------------------------------------
(* Specifications *)

Init == MainInit /\ hs = HashOff /\ fs = FindOff /\ bs = BuildOff /\ es = EventsOff /\ cs = ClientOff

Next ==
    \/ \E t \in Threads, via \in {"project", "ctx"}, name \in ExperimentNames,
          userID \in Users, now \in Times :
          Start(t, via, name, userID, now)
    \/ \E t \in Threads : StartBackground(t)
    \/ \E t \in Threads : RLock(t)
    \/ \E t \in Threads : RUnlock(t)
    \/ \E t \in Threads : Compute(t)
    \/ \E t \in Threads : Lock(t)
    \/ \E t \in Threads : Unlock(t)
    \/ \E t \in Threads : CtxLock(t)
    \/ \E t \in Threads : CtxUnlock(t)

Spec == Init /\ [][Next]_vars

HashNext ==
    \/ \E e \in HashExperiments, bucketingID \in BucketingIDs : HashCall(e, bucketingID)
    \/ HashSum
    \/ HashReturn

InitHash == MainOff /\ HashInit /\ fs = FindOff /\ bs = BuildOff /\ es = EventsOff /\ cs = ClientOff

SpecHash == InitHash /\ [][HashNext]_vars

FindNext == FindReturn

InitFind == MainOff /\ FindInit /\ hs = HashOff /\ bs = BuildOff /\ es = EventsOff /\ cs = ClientOff

SpecFind == InitFind /\ [][FindNext]_vars

BuildNext == BuildReturn

InitBuild == MainOff /\ BuildInit /\ hs = HashOff /\ fs = FindOff /\ es = EventsOff /\ cs = ClientOff

SpecBuild == InitBuild /\ [][BuildNext]_vars

\* the callers of one session
SessionNext ==
    \/ \E t \in Threads, via \in {"ctx"}, name \in ExperimentNames,
          userID \in Users, now \in Times :
          Start(t, via, name, userID, now)
    \/ \E t \in Threads : RLock(t)
    \/ \E t \in Threads : RUnlock(t)
    \/ \E t \in Threads : Compute(t)
    \/ \E t \in Threads : Lock(t)
    \/ \E t \in Threads : Unlock(t)
    \/ \E t \in Threads : CtxLock(t)
    \/ \E t \in Threads : CtxUnlock(t)
    \/ \E t \in Threads, options \in DrainOptions : DrainLock(t, options)
    \/ \E t \in Threads : DrainReset(t)
    \/ \E t \in Threads : DrainUnlock(t)
    \/ \E t \in Threads, options \in DrainOptions : DrainBackground(t, options)

InitSession == SessionInit /\ hs = HashOff /\ fs = FindOff /\ bs = BuildOff /\ es = EventsOff /\ cs = ClientOff

SpecSession == InitSession /\ [][SessionNext]_vars

\* the option list holds an impression of the account "00002"
ForeignAccount(options) ==
    \E n \in 1..Len(options) :
        /\ options[n].option = "ActivatedImpression"
        /\ options[n].arg.Variation.experiment.project.AccountID = "00002"

\* the steps of a call of thread t that take or release a lock, or write under
\* one
Continue(t) ==
    \/ RLock(t)
    \/ RUnlock(t)
    \/ Lock(t)
    \/ Unlock(t)
    \/ CtxLock(t)
    \/ CtxUnlock(t)
    \/ DrainReset(t)
    \/ DrainUnlock(t)

\* the callers of one session under a scheduler that lets every goroutine
\* run: a call whose next step stays possible takes it, and the computation
\* of findBucket(getBucketValue(userID)), which waits for nothing, ends.
\* Callers start finitely many calls, so no more is needed of the locks than
\* that a lock which stays free is handed to a goroutine waiting for it.
\* the option lists of the callers of EventsFromContext under that
\* scheduler: none, and the one that makes the drain panic
FairDrainOptions == {<<>>} \cup {o \in DrainOptions : ForeignAccount(o)}

FairNext ==
    \/ \E t \in Threads, via \in {"ctx"}, name \in ExperimentNames,
          userID \in Users, now \in Times :
          Start(t, via, name, userID, now)
    \/ \E t \in Threads : Compute(t)
    \/ \E t \in Threads : Continue(t)
    \/ \E t \in Threads, options \in FairDrainOptions : DrainLock(t, options)
    \/ \E t \in Threads, options \in {<<>>} : DrainBackground(t, options)

SpecSessionFair ==
    /\ InitSession
    /\ [][FairNext]_vars
    /\ \A t \in Threads : WF_vars(Continue(t))
    /\ \A t \in Threads : []<>(pc[t] # "compute")

ClientNext ==
    \/ \E responses \in SeqsUpTo(ClientResponses, MaxPages) \ {<<>>} :
          ClientResponds(responses)
    \/ ClientFails
    \/ ClientReturn

InitClient == MainOff /\ ClientInit /\ hs = HashOff /\ fs = FindOff /\ bs = BuildOff /\ es = EventsOff

SpecClient == InitClient /\ [][ClientNext]_vars

EventsNext == NewEventsReturn

InitEvents == MainOff /\ EventsInit /\ hs = HashOff /\ fs = FindOff /\ bs = BuildOff /\ cs = ClientOff

SpecEvents == InitEvents /\ [][EventsNext]_vars

PagesNext == PageRequest

InitPages == MainOff /\ PagesInit /\ hs = HashOff /\ fs = FindOff /\ bs = BuildOff /\ es = EventsOff

SpecPages == InitPages /\ [][PagesNext]_vars

\* the loop of sendPaginatedAPIRequest runs on: no turn of it waits for
\* anything but the answer to its request
SpecPagesFair == SpecPages /\ WF_vars(PagesNext)

-----------------------------------------------------------------------------
(* Properties of the concurrent callers *)

IsExperiment(name) == name \in DOMAIN project.experiments

Running(name) == IsExperiment(name) /\ project.experiments[name].status = runningStatus

Forced(name, userID) ==
    IsExperiment(name) /\ userID \in DOMAIN project.experiments[name].forcedVariations

\* thread t makes a call that reaches Project.GetVariation
Calling(t) == local[t].via \in {"project", "ctx"}

\* the step is one of thread t's
StepOf(t) ==
    /\ vars' # vars
    /\ \A o \in Threads \ {t} : pc'[o] = pc[o] /\ local'[o] = local[o]

\* the step ends thread t's call, by a return or by a panic
Ends(t) == StepOf(t) /\ pc[t] \notin {"done", "panicked"} /\ pc'[t] \in {"done", "panicked"}

\* the variations returned so far for an experiment and a user
ReturnedFor(name, userID) == {r[3] : r \in {q \in returned : q[1] = name /\ q[2] = userID}}

\* C1: sticky assignment.  For a running experiment and a user not in its
\* forced variations, a call that ends after some call has returned an
\* impression with variation V returns an impression with variation V too,
\* whatever the interleaving and whether it was made on the Project or
\* through the session.
C1_StickyAssignment ==
    [][\A t \in Threads :
          (/\ Ends(t)
           /\ Calling(t)
           /\ ~Forced(local[t].experimentName, local[t].userID)
           /\ ReturnedFor(local[t].experimentName, local[t].userID) # {})
          => /\ pc'[t] = "done"
             /\ local'[t].impression # Nil
             /\ ReturnedFor(local[t].experimentName, local[t].userID)
                    = {Deref(local'[t].impression).Variation}
             /\ local[t].via = "ctx" => local'[t].ret = Deref(local'[t].impression).Variation]_vars

\* two calls for the same unforced user have returned, one through the
\* session from the cache and one that computed the variation
C1_Witness ==
    \E t \in Threads, o \in Threads :
        /\ pc[t] = "done" /\ pc[o] = "done"
        /\ local[t].path = "cached" /\ local[t].via = "ctx"
        /\ local[o].path = "computed"
        /\ local[t].experimentName = local[o].experimentName
        /\ local[t].userID = local[o].userID
        /\ local[t].impression # Nil
        /\ local[t].impression = local[o].impression

\* the bucket value of the user is below no bound of the running experiment,
\* and the user is not forced
Excluded(name, userID) ==
    /\ Running(name)
    /\ ~Forced(name, userID)
    /\ \A i \in 1..Len(project.experiments[name].trafficAllocation) :
          ~(getBucketValue(project.experiments[name], userID)
                < project.experiments[name].trafficAllocation[i].endOfRange)

\* C2: excluded user.  A call for a user that is neither forced nor cached
\* and whose bucket value is below no bound never panics, and returns nil.
C2_ExcludedReturnsNil ==
    \A t \in Threads :
        (Calling(t) /\ Excluded(local[t].experimentName, local[t].userID))
        => /\ pc[t] \notin {"panicUnlock", "panicked"}
           /\ pc[t] = "done" => local[t].impression = Nil

\* C3: forced precedence.  Every call on a running experiment for a user in
\* its forced variations returns the forced variation.
C3_ForcedPrecedence ==
    \A t \in Threads :
        (/\ Calling(t)
         /\ pc[t] \in {"done", "panicked"}
         /\ Running(local[t].experimentName)
         /\ Forced(local[t].experimentName, local[t].userID))
        => /\ pc[t] = "done"
           /\ local[t].impression =
                  Ptr(NewImpression(
                      project.experiments[local[t].experimentName].forcedVariations[local[t].userID],
                      local[t].userID, local[t].timestamp))
           /\ local[t].via = "ctx" =>
                  local[t].ret =
                      project.experiments[local[t].experimentName].forcedVariations[local[t].userID]

\* a forced call has returned although the traffic allocation resolves the
\* user's bucket to another variation and the cache holds other users
C3_Witness ==
    \E t \in Threads :
        /\ Calling(t)
        /\ pc[t] = "done"
        /\ Running(local[t].experimentName)
        /\ Forced(local[t].experimentName, local[t].userID)
        /\ local[t].impression # Nil
        /\ findBucket(project.experiments[local[t].experimentName],
                      getBucketValue(project.experiments[local[t].experimentName],
                                     local[t].userID))
               # Ptr(Deref(local[t].impression).Variation)
        /\ cachedVariations[local[t].experimentName] # EmptyMap

\* C4: a call resolved through the forced variations takes no step that
\* changes the cache or the lock of any experiment, never holds the cache
\* lock, and its user never enters the cache.
C4_ForcedLeavesCache ==
    /\ [][\A t \in Threads :
             (StepOf(t) /\ local'[t].path = "forced")
             => (cachedVariations' = cachedVariations /\ mutex' = mutex)]_vars
    /\ [](\A t \in Threads :
             (/\ Calling(t)
              /\ Running(local[t].experimentName)
              /\ Forced(local[t].experimentName, local[t].userID))
             => /\ local[t].path = "forced"
                /\ t \notin mutex[local[t].experimentName].readers
                /\ mutex[local[t].experimentName].writer # Ptr(t)
                /\ local[t].userID \notin DOMAIN cachedVariations[local[t].experimentName])

\* a forced call through the session has returned while the cache of its
\* experiment holds an entry and another thread holds its lock
C4_Witness ==
    \E t \in Threads, o \in Threads :
        /\ pc[t] = "done"
        /\ local[t].path = "forced"
        /\ local[t].via = "ctx"
        /\ cachedVariations[local[t].experimentName] # EmptyMap
        /\ mutex[local[t].experimentName].writer = Ptr(o)

\* C5: an experiment that is not running yields no impression, for forced
\* users too, and its cache and lock stay as constructed.
C5_NotRunningNoImpression ==
    /\ \A t \in Threads :
          (/\ Calling(t)
           /\ IsExperiment(local[t].experimentName)
           /\ ~Running(local[t].experimentName))
          => /\ pc[t] = "done"
             /\ local[t].impression = Nil
             /\ local[t].ret = ZeroVariation
    /\ \A k \in DOMAIN project.experiments :
          ~Running(k) => /\ cachedVariations[k] = EmptyMap
                         /\ mutex[k] = [readers |-> {}, writer |-> Nil]

\* a call on the paused experiment for a user it declares forced has returned
C5_Witness ==
    \E t \in Threads :
        /\ Calling(t)
        /\ pc[t] = "done"
        /\ IsExperiment(local[t].experimentName)
        /\ ~Running(local[t].experimentName)
        /\ Forced(local[t].experimentName, local[t].userID)

-----------------------------------------------------------------------------
(* Properties of NewProjectFromDataFile *)

\* a list of bounds is non-decreasing and ends at maxTrafficValue or below
BoundsOK(b) ==
    /\ \A i \in 1..(Len(b) - 1) : b[i] <= b[i + 1]
    /\ Len(b) > 0 => b[Len(b)] <= maxTrafficValue

ExperimentBounds(e) ==
    [i \in 1..Len(e.trafficAllocation) |-> e.trafficAllocation[i].endOfRange]

DeclBounds(d) == [i \in 1..Len(d.TrafficAllocation) |-> d.TrafficAllocation[i].EndOfRange]

ProjectBoundsOK(p) == \A k \in DOMAIN p.experiments : BoundsOK(ExperimentBounds(p.experiments[k]))

DocBoundsOK(doc) ==
    \A i \in 1..Len(doc.df.Experiments) : BoundsOK(DeclBounds(doc.df.Experiments[i]))

\* C6 as stated: every Project returned without error has, in each
\* experiment, non-decreasing bounds whose last is at most 10000.
C6_BoundsOrdered ==
    (bs.pc = "done" /\ bs.err = Nil) => ProjectBoundsOK(bs.project)

\* C6 as amended: the bounds of each experiment of a Project returned without
\* error are the bounds of a declaration with its key, in the declared order;
\* so they are non-decreasing with a last bound of at most 10000 when the
\* document declares every experiment so.
C6_BoundsCarriedOver ==
    (bs.pc = "done" /\ bs.err = Nil)
    => /\ \A k \in DOMAIN bs.project.experiments :
             \E i \in 1..Len(bs.datafileJSON.df.Experiments) :
                /\ bs.datafileJSON.df.Experiments[i].Key = k
                /\ ExperimentBounds(bs.project.experiments[k])
                       = DeclBounds(bs.datafileJSON.df.Experiments[i])
       /\ DocBoundsOK(bs.datafileJSON) => ProjectBoundsOK(bs.project)

\* a project was built from a document whose experiment declares two
\* different bounds in ascending order
C6_Witness ==
    /\ bs.pc = "done"
    /\ bs.err = Nil
    /\ DocBoundsOK(bs.datafileJSON)
    /\ \E k \in DOMAIN bs.project.experiments :
          /\ Len(bs.project.experiments[k].trafficAllocation) >= 2
          /\ bs.project.experiments[k].trafficAllocation[1].endOfRange
                 < bs.project.experiments[k].trafficAllocation[2].endOfRange

DeclaredIDs(d) == {d.Variations[v].ID : v \in 1..Len(d.Variations)}

UnknownEntity(d) ==
    \E j \in 1..Len(d.TrafficAllocation) : d.TrafficAllocation[j].EntityID \notin DeclaredIDs(d)

\* the document is malformed, of another version, or has a traffic-allocation
\* entry whose variation id its experiment does not declare
MustFail(doc) ==
    \/ ~doc.wellFormed
    \/ doc.df.Version # "4"
    \/ \E i \in 1..Len(doc.df.Experiments) : UnknownEntity(doc.df.Experiments[i])

\* C10: NewProjectFromDataFile returns an error exactly for the documents of
\* MustFail, then together with Project{}, and otherwise the Project of the
\* whole document and no error.
C10_AllOrNothing ==
    bs.pc = "done"
    => /\ bs.err # Nil <=> MustFail(bs.datafileJSON)
       /\ bs.err # Nil => bs.project = ZeroProject
       /\ bs.err = Nil =>
             /\ bs.project.Version = "4"
             /\ bs.project.AccountID = bs.datafileJSON.df.AccountID
             /\ bs.project.RawDataFile = bs.datafileJSON
             /\ DOMAIN bs.project.experiments
                    = {bs.datafileJSON.df.Experiments[i].Key :
                           i \in 1..Len(bs.datafileJSON.df.Experiments)}

\* the second experiment of a version 4 document has an undeclared entity id
\* after a first experiment that was built, and Project{} came back
C10_Witness ==
    /\ bs.pc = "done"
    /\ bs.err # Nil
    /\ bs.project = ZeroProject
    /\ bs.datafileJSON.wellFormed
    /\ bs.datafileJSON.df.Version = "4"
    /\ Len(bs.datafileJSON.df.Experiments) = 2
    /\ ~UnknownEntity(bs.datafileJSON.df.Experiments[1])
    /\ UnknownEntity(bs.datafileJSON.df.Experiments[2])

DeclaredKeys(d) == {d.Variations[v].Key : v \in 1..Len(d.Variations)}

\* the last declaration of the datafile that carries key k
LastDecl(df, k) ==
    df.Experiments[CHOOSE i \in 1..Len(df.Experiments) :
                      /\ df.Experiments[i].Key = k
                      /\ \A j \in (i + 1)..Len(df.Experiments) : df.Experiments[j].Key # k]

\* C11: in a Project returned without error, the forced variations of the
\* experiment stored under a key are exactly the declared pairs (user,
\* variation key) whose key the declaration declares as a variation, each
\* mapped to a variation of that key and of that experiment; a pair with an
\* undeclared key is left out, and causes no error.
C11_ForcedVariationsKept ==
    bs.pc = "done"
    => /\ bs.err = Nil <=> ~MustFail(bs.datafileJSON)
       /\ bs.err = Nil =>
             \A k \in DOMAIN bs.project.experiments :
                LET d == LastDecl(bs.datafileJSON.df, k)
                    f == bs.project.experiments[k].forcedVariations
                IN  /\ DOMAIN f = {u \in DOMAIN d.ForcedVariations :
                                      d.ForcedVariations[u] \in DeclaredKeys(d)}
                    /\ \A u \in DOMAIN f :
                          /\ f[u].Key = d.ForcedVariations[u]
                          /\ f[u].id \in DeclaredIDs(d)
                          /\ f[u].experiment.id = d.ID
                          /\ f[u].experiment.Key = k

\* a project was built from a declaration that forces one user to a declared
\* variation key and another user to an undeclared one
C11_Witness ==
    /\ bs.pc = "done"
    /\ bs.err = Nil
    /\ \E k \in DOMAIN bs.project.experiments :
          LET d == LastDecl(bs.datafileJSON.df, k)
          IN  /\ \E u \in DOMAIN d.ForcedVariations :
                    d.ForcedVariations[u] \notin DeclaredKeys(d)
              /\ \E u \in DOMAIN d.ForcedVariations :
                    /\ d.ForcedVariations[u] \in DeclaredKeys(d)
                    /\ u \in DOMAIN bs.project.experiments[k].forcedVariations

\* C12: configuration round trip.  In a Project returned without error the
\* experiment stored under each declared key k is built from the last
\* declaration carrying k, and its traffic allocation has the variation ids
\* and the bounds of that declaration, in the declared order.
C12_RoundTrip ==
    (bs.pc = "done" /\ bs.err = Nil)
    => \A n \in 1..Len(bs.datafileJSON.df.Experiments) :
          LET k == bs.datafileJSON.df.Experiments[n].Key
              d == LastDecl(bs.datafileJSON.df, k)
          IN  /\ k \in DOMAIN bs.project.experiments
              /\ LET e == bs.project.experiments[k]
                 IN  /\ e.Key = k
                     /\ e.id = d.ID
                     /\ e.layerID = d.LayerID
                     /\ e.status = d.Status
                     /\ Len(e.trafficAllocation) = Len(d.TrafficAllocation)
                     /\ \A i \in 1..Len(d.TrafficAllocation) :
                           /\ e.trafficAllocation[i].endOfRange
                                  = d.TrafficAllocation[i].EndOfRange
                           /\ e.trafficAllocation[i].Variation.id
                                  = d.TrafficAllocation[i].EntityID

\* a project was built from two declarations of one key with different
\* allocations, the later one with two entries
C12_Witness ==
    /\ bs.pc = "done"
    /\ bs.err = Nil
    /\ Len(bs.datafileJSON.df.Experiments) = 2
    /\ bs.datafileJSON.df.Experiments[1].Key = bs.datafileJSON.df.Experiments[2].Key
    /\ bs.datafileJSON.df.Experiments[1].TrafficAllocation
           # bs.datafileJSON.df.Experiments[2].TrafficAllocation
    /\ Len(bs.datafileJSON.df.Experiments[2].TrafficAllocation) = 2
    /\ bs.datafileJSON.df.Experiments[2].TrafficAllocation[1].EntityID
           # bs.datafileJSON.df.Experiments[2].TrafficAllocation[2].EntityID

-----------------------------------------------------------------------------
(* Properties of getBucketValue and findBucket *)

\* C7: the bucket value getBucketValue computes from a hash is in 0..9999.
C7_BucketValueInRange ==
    hs.pc = "done"
    => /\ hs.value = BucketOfHash(hs.hashCode)
       /\ hs.value \in 0..(maxTrafficValue - 1)

\* the fixtures of TestExperiment_getBucketValue
Pinned ==
    {<<id1886780721, ppid1, 5254>>, <<id1886780721, ppid2, 4299>>,
     <<id1886780722, ppid2, 2434>>, <<id1886780721, ppid3, 5439>>}

\* C9: getBucketValue depends on the experiment id and the bucketing id only:
\* a call returns what the first call returned for the same pair, whatever
\* else differs between the two experiments, and it returns the pinned values.
C9_BucketValuePure ==
    hs.pc = "done"
    => /\ \A f \in Pinned :
             (Deref(hs.e).id = f[1] /\ hs.bucketingID = f[2]) => hs.value = f[3]
       /\ (/\ hs.first # Nil
           /\ Deref(hs.first).e.id = Deref(hs.e).id
           /\ Deref(hs.first).bucketingID = hs.bucketingID)
          => hs.value = Deref(hs.first).value

\* a pinned pair was evaluated twice, on a paused and on a running experiment
\* of the same id
C9_Witness ==
    /\ hs.pc = "done"
    /\ hs.first # Nil
    /\ Deref(hs.first).e.id = Deref(hs.e).id
    /\ Deref(hs.first).bucketingID = hs.bucketingID
    /\ Deref(hs.first).e.status # Deref(hs.e).status
    /\ \E f \in Pinned : Deref(hs.e).id = f[1] /\ hs.bucketingID = f[2]

LastBound(e) == e.trafficAllocation[Len(e.trafficAllocation)].endOfRange

LastVariation(e) == e.trafficAllocation[Len(e.trafficAllocation)].Variation

\* C8 as stated: in every traffic partition the bucket value one below the
\* final bound resolves to the last entry's variation.
C8_LastBoundMinusOne ==
    (/\ fs.pc = "done"
     /\ Len(fs.e.trafficAllocation) > 0
     /\ fs.bucketValue = LastBound(fs.e) - 1)
    => fs.result = Ptr(LastVariation(fs.e))

\* C8 as amended: in every traffic partition whose entries before the last
\* all have a bound below the final bound, the bucket value one below the
\* final bound resolves to the last entry's variation.
C8_LastBoundMinusOneAscending ==
    (/\ fs.pc = "done"
     /\ Len(fs.e.trafficAllocation) > 0
     /\ \A i \in 1..(Len(fs.e.trafficAllocation) - 1) :
           fs.e.trafficAllocation[i].endOfRange < LastBound(fs.e)
     /\ fs.bucketValue = LastBound(fs.e) - 1)
    => fs.result = Ptr(LastVariation(fs.e))

\* the scan passed a first entry of another variation and returned the second
C8_Witness ==
    /\ fs.pc = "done"
    /\ Len(fs.e.trafficAllocation) = 2
    /\ fs.e.trafficAllocation[1].endOfRange < LastBound(fs.e)
    /\ fs.e.trafficAllocation[1].Variation # LastVariation(fs.e)
    /\ fs.bucketValue = LastBound(fs.e) - 1
    /\ fs.result = Ptr(LastVariation(fs.e))

-----------------------------------------------------------------------------
(* Properties of NewEvents *)

IsActivated(o) == o.option = "ActivatedImpression"

\* the impressions of the ActivatedImpression options, in option order
Activated(options) ==
    LET acts == SelectSeq(options, IsActivated)
    IN  [n \in 1..Len(acts) |-> acts[n].arg]

AccountOf(i) == i.Variation.experiment.project.AccountID

\* two of the impressions resolve to different account ids
MixedAccounts(impressions) ==
    \E m \in 1..Len(impressions), n \in 1..Len(impressions) :
        AccountOf(impressions[m]) # AccountOf(impressions[n])

\* C13: NewEvents returns an error whenever its ActivatedImpression options
\* hold two impressions that resolve to different account ids.
C13_MixedAccountsFail ==
    (es.pc = "done" /\ MixedAccounts(Activated(es.options))) => es.err # Nil

\* C14: NewEvents returns no batch without a visitor: without an
\* ActivatedImpression option it returns an error, whatever the other
\* options, and with an error it returns Events{}.
C14_NoEmptyBatch ==
    es.pc = "done"
    => /\ Len(Activated(es.options)) = 0 => es.err # Nil
       /\ es.err # Nil => es.events = ZeroEvents
       /\ es.err = Nil => Len(es.events.Visitors) > 0

\* NewEvents was called with client name, version and flag options only
C14_Witness ==
    /\ es.pc = "done"
    /\ Len(es.options) = MaxOptions
    /\ Len(Activated(es.options)) = 0
    /\ es.err # Nil
    /\ es.events = ZeroEvents

\* C15: a batch NewEvents returns without error holds one visitor per
\* ActivatedImpression option, in option order; each visitor has the user id
\* of its impression and one snapshot with one decision (campaign id = layer
\* id of the experiment, experiment id, variation id) and one event (entity
\* id = layer id, type campaign_activated, timestamp = the whole milliseconds
\* of the impression's time).
C15_OneVisitorPerImpression ==
    (es.pc = "done" /\ es.err = Nil)
    => LET imps == Activated(es.options)
       IN  /\ Len(es.events.Visitors) = Len(imps)
           /\ \A n \in 1..Len(imps) :
                 LET v == es.events.Visitors[n]
                     i == imps[n]
                 IN  /\ v.ID = i.UserID
                     /\ Len(v.Snapshots) = 1
                     /\ Len(v.Snapshots[1].Decisions) = 1
                     /\ v.Snapshots[1].Decisions[1]
                            = [CampaignID |-> i.Variation.experiment.layerID,
                               ExperimentID |-> i.Variation.experiment.id,
                               VariationID |-> i.Variation.id]
                     /\ Len(v.Snapshots[1].Events) = 1
                     /\ v.Snapshots[1].Events[1].EntityID = i.Variation.experiment.layerID
                     /\ v.Snapshots[1].Events[1].Type = "campaign_activated"
                     /\ i.Timestamp >= 0
                     /\ v.Snapshots[1].Events[1].Timestamp = i.Timestamp \div 1000000

\* a batch was built from two impressions of one account, of different
\* experiments and instants, with another option between them
C15_Witness ==
    /\ es.pc = "done"
    /\ es.err = Nil
    /\ Len(es.options) = 3
    /\ IsActivated(es.options[1])
    /\ ~IsActivated(es.options[2])
    /\ IsActivated(es.options[3])
    /\ es.options[1].arg.Variation.experiment.id # es.options[3].arg.Variation.experiment.id
    /\ es.options[1].arg.Timestamp # es.options[3].arg.Timestamp
    /\ Len(es.events.Visitors) = 2

-----------------------------------------------------------------------------
(* Properties of the session *)

\* the step is thread t's projectCtx.mutex.Lock() in GetVariation(ctx, ...)
AppendStepOf(t) == StepOf(t) /\ pc[t] = "ctxLock" /\ pc'[t] = "ctxUnlock"

SessionVisitors(b) ==
    SubSeq(b.events.Visitors, Len(Activated(b.options)) + 1, Len(b.events.Visitors))

\* the visitors of the batches drained so far, in drain order: of each batch
\* all of them, or those that come from the session
RECURSIVE DrainedVisitors(_, _, _)
DrainedVisitors(batches, n, whole) ==
    IF n > Len(batches) THEN <<>>
    ELSE (IF whole THEN batches[n].events.Visitors ELSE SessionVisitors(batches[n]))
             \o DrainedVisitors(batches, n + 1, whole)

\* v is the visitor of impression i
VisitorOf(v, i) == v = toVisitor(i, v.Snapshots[1].Events[1].UUID)

\* the visitors, followed by the impressions in the buffer, are the
\* impressions recorded so far, one for one and in the order of recording
AccountsForRecorded(visitors) ==
    /\ Len(visitors) + Len(projectCtx.impressions) = Len(log.recorded)
    /\ \A n \in 1..Len(visitors) :
          n <= Len(log.recorded) => VisitorOf(visitors[n], log.recorded[n])
    /\ \A n \in 1..Len(projectCtx.impressions) :
          Len(visitors) + n <= Len(log.recorded)
          => projectCtx.impressions[n] = log.recorded[Len(visitors) + n]

\* the drain of thread t that produced a batch cleared the buffer under the
\* lock, and the batch it returns is the last one drained
DrainIsAtomic(t) ==
    /\ (pc[t] = "drainUnlock" /\ local[t].events # Nil)
       => /\ projectCtx.impressions = <<>>
          /\ projectCtx.mutex = Ptr(t)
          /\ Len(log.drained) > 0
          /\ log.drained[Len(log.drained)].events = Deref(local[t].events)
    /\ (pc[t] = "done" /\ local[t].via = "drain" /\ local[t].events # Nil)
       => \E k \in 1..Len(log.drained) :
             log.drained[k].events = Deref(local[t].events)

\* C16 as stated: the batches of the successful drains consist of exactly
\* the impressions recorded in the session, each in one batch, in order,
\* and a drain leaves the buffer empty in the step that takes its batch.
C16_DrainOnlySession ==
    /\ AccountsForRecorded(DrainedVisitors(log.drained, 1, TRUE))
    /\ \A t \in Threads : DrainIsAtomic(t)

\* C16 as amended: the batch of a successful drain holds the visitors of the
\* caller's own ActivatedImpression options, if it passed any, followed by
\* exactly the impressions recorded since the previous successful drain;
\* every recorded impression is in one batch or still in the buffer, none is
\* lost and none is in two batches, and a drain leaves the buffer empty in
\* the step that takes its batch, whatever the interleaving.
C16_DrainExactlyOnce ==
    /\ AccountsForRecorded(DrainedVisitors(log.drained, 1, FALSE))
    /\ \A k \in 1..Len(log.drained) :
          /\ Len(SessionVisitors(log.drained[k])) > 0
          /\ \A n \in 1..Len(Activated(log.drained[k].options)) :
                VisitorOf(log.drained[k].events.Visitors[n],
                          Activated(log.drained[k].options)[n])
    /\ \A t \in Threads : DrainIsAtomic(t)

\* a second drain holds its batch under the lock, after a first drain and
\* with impressions recorded before and after it, while another thread waits
\* to append an impression
C16_Witness ==
    \E t \in Threads, o \in Threads :
        /\ pc[t] = "drainUnlock"
        /\ local[t].events # Nil
        /\ Len(log.drained) = 2
        /\ Len(SessionVisitors(log.drained[1])) < Len(log.recorded)
        /\ pc[o] = "ctxLock"

\* an option of the list is an ActivatedImpression of an account other than
\* the account of the session's project
ForeignOption(options) ==
    \E n \in 1..Len(options) :
        IsActivated(options[n]) /\ AccountOf(options[n].arg) # project.AccountID

\* C18: EventsFromContext called on a session with at least one impression
\* and with an ActivatedImpression option of another account panics, and
\* returns no batch.
C18_ForeignAccountPanics ==
    \A t \in Threads :
        (local[t].via = "drain" /\ local[t].seen > 0 /\ ForeignOption(local[t].options))
        => /\ pc[t] \in {"drainPanicUnlock", "panicked"}
           /\ local[t].events = Nil

\* the call finds nothing to drain: no session, or an empty buffer
NothingToDrain(l) == l.via = "drainBackground" \/ (l.via = "drain" /\ l.seen = 0)

\* C19: EventsFromContext on a context without session, or on a session
\* with an empty buffer, returns nil whatever its options, does not panic,
\* and no step of it changes the buffer.
C19_NothingToDrain ==
    /\ [][\A t \in Threads :
             (StepOf(t) /\ NothingToDrain(local'[t]))
             => /\ projectCtx'.impressions = projectCtx.impressions
                /\ projectCtx'.userID = projectCtx.userID
                /\ log'.drained = log.drained]_vars
    /\ [](\A t \in Threads :
             NothingToDrain(local[t])
             => /\ local[t].events = Nil
                /\ pc[t] \in {"drainUnlock", "done"}
                /\ pc[t] = "done" => projectCtx.mutex # Ptr(t))

\* a call with an ActivatedImpression option has returned nil from a session
\* whose buffer an earlier drain had emptied
C19_Witness ==
    \E t \in Threads :
        /\ pc[t] = "done"
        /\ local[t].via = "drain"
        /\ local[t].seen = 0
        /\ local[t].events = Nil
        /\ Len(local[t].options) > 0
        /\ IsActivated(local[t].options[1])
        /\ Len(log.drained) > 0

-----------------------------------------------------------------------------
(* Properties of the api client *)

\* the environments of the pages the API returned, when all of them decode
ListedEnvironments == GetEnvironmentsByProjectID(cs.paginated)

\* C20: when the listing of the project's environments succeeds,
\* GetEnvironmentByProjectID(name, projectID) returns an environment whose
\* name is the given name if the project has one, and an error if it has
\* none.
C20_EnvironmentByName ==
    (cs.pc = "done" /\ ListedEnvironments.err = Nil)
    => IF \E n \in 1..Len(ListedEnvironments.environments) :
             ListedEnvironments.environments[n].Name = cs.key
       THEN cs.err = Nil /\ cs.environment.Name = cs.key
       ELSE cs.err # Nil

-----------------------------------------------------------------------------
(* Properties of sendPaginatedAPIRequest *)

\* the rel="next" links of a response
NextLinks(resp) == SelectSeq(resp.Link, LAMBDA l : l.Rel = "next")

\* the requests made so far follow the next links from uri: the first request
\* is uri, the response of request i is the i-th response, every response but
\* the last one carries a next link, and request i + 1 is the URL of the first
\* next link of response i
FollowsNextLinks ==
    /\ Len(cs.requested) > 0 => cs.requested[1] = cs.uri
    /\ \A i \in 1..Len(cs.responses) :
          /\ cs.responses[i].URL = cs.requested[i]
          /\ cs.responses[i].Link = cs.server[cs.requested[i]].Link
    /\ \A i \in 1..(Len(cs.requested) - 1) :
          /\ i <= Len(cs.responses)
          /\ NextLinks(cs.responses[i]) # <<>>
          /\ cs.requested[i + 1] = NextLinks(cs.responses[i])[1].URL

\* C21: sendPaginatedAPIRequest requests the given URL first and then, one at
\* a time, the URL of each response's rel="next" link; it stops at the first
\* response without a next link, and on success it returns the responses of
\* exactly the requested pages in the order of the requests.
C21_PagesInOrder ==
    (cs.pc \in {"request", "done"} /\ cs.unkept = 0) =>
        /\ FollowsNextLinks
        /\ cs.pc = "request" =>
              /\ Len(cs.responses) = Len(cs.requested)
              /\ cs.requested = <<>> => cs.curURL = cs.uri
              /\ cs.requested # <<>> =>
                    /\ NextLinks(cs.responses[Len(cs.responses)]) # <<>>
                    /\ cs.curURL = NextLinks(cs.responses[Len(cs.responses)])[1].URL
        /\ (cs.pc = "done" /\ cs.result.err = Nil) =>
              /\ cs.result.responses = cs.responses
              /\ Len(cs.responses) = Len(cs.requested)
              /\ NextLinks(cs.responses[Len(cs.responses)]) = <<>>

\* three pages were requested and returned, and a page on the way carried a
\* link that is no next link in front of its next link
C21_Witness ==
    /\ cs.pc = "done"
    /\ cs.unkept = 0
    /\ cs.result.err = Nil
    /\ Len(cs.result.responses) = 3
    /\ \E i \in 1..2 : cs.result.responses[i].Link[1].Rel = "prev"

\* C30: sendPaginatedAPIRequest terminates: for every server it eventually
\* returns, with all pages or, as soon as one request fails, with an error and
\* no responses; it does not request the same URL forever when the next links
\* form a cycle.
C30_Terminates ==
    /\ <>(cs.pc = "done")
    /\ [](cs.pc = "done" =>
            \/ cs.result.err = Nil /\ cs.result.responses = cs.responses
            \/ /\ cs.result.err # Nil
               /\ cs.result.responses = <<>>
               /\ Len(cs.requested) = Len(cs.responses) + 1)

-----------------------------------------------------------------------------
(* Properties of the assignment cache *)

\* the cache of the experiment thread t is calling maps the user of the call
\* to variation
CacheHolds(cache, l, variation) ==
    /\ l.userID \in DOMAIN cache[l.experimentName]
    /\ cache[l.experimentName][l.userID] = variation

\* C22: write before return: when Project.GetVariation resolves a variation V
\* for user u through the computed path, the experiment's cache maps u to V
\* in the state the call returns from and in the state it returns to, so the
\* caller never holds the impression while the cache lacks the entry.
C22_WriteBeforeReturn ==
    [][\A t \in Threads :
          (pc[t] = "unlock" /\ pc'[t] # "unlock") =>
              /\ local'[t].path = "computed"
              /\ local'[t].impression # Nil
              /\ CacheHolds(cachedVariations, local[t],
                            Deref(local'[t].impression).Variation)
              /\ CacheHolds(cachedVariations', local'[t],
                            Deref(local'[t].impression).Variation)]_vars

\* a direct call returned the impression of a variation it computed
C22_Witness ==
    \E t \in Threads :
        /\ pc[t] = "done"
        /\ local[t].via = "project"
        /\ local[t].path = "computed"
        /\ local[t].impression # Nil
        /\ CacheHolds(cachedVariations, local[t], Deref(local[t].impression).Variation)

-----------------------------------------------------------------------------
(* Properties of the scan of findBucket *)

\* the positions of the traffic allocation of e whose bound is strictly
\* greater than bucketValue
Above(e, bucketValue) ==
    {i \in 1..Len(e.trafficAllocation) : e.trafficAllocation[i].endOfRange > bucketValue}

\* C23: findBucket scans the traffic-allocation entries in the order of the
\* configuration and returns the variation of the first entry whose bound is
\* strictly greater than the bucket value, and no variation when no entry's
\* bound exceeds it.
C23_FirstEntryAbove ==
    fs.pc = "done" =>
        IF Above(fs.e, fs.bucketValue) = {} THEN fs.result = Nil
        ELSE \E i \in Above(fs.e, fs.bucketValue) :
                /\ \A j \in Above(fs.e, fs.bucketValue) : i <= j
                /\ fs.result = Ptr(fs.e.trafficAllocation[i].Variation)

\* the bucket value is the bound of the first entry, and the scan returned
\* the variation of the second, which is another one
C23_Witness ==
    /\ fs.pc = "done"
    /\ Len(fs.e.trafficAllocation) = 2
    /\ fs.bucketValue = fs.e.trafficAllocation[1].endOfRange
    /\ fs.e.trafficAllocation[1].Variation # fs.e.trafficAllocation[2].Variation
    /\ fs.result = Ptr(fs.e.trafficAllocation[2].Variation)

-----------------------------------------------------------------------------
(* Properties of the locks *)

\* the threads between experiment.mutex.RLock() and RUnlock() of experiment k
ReadersOf(k) == {t \in Threads : pc[t] = "runlock" /\ local[t].experimentName = k}

\* the threads between experiment.mutex.Lock() and Unlock() of experiment k
WritersOf(k) ==
    {t \in Threads : pc[t] \in {"unlock", "panicUnlock"} /\ local[t].experimentName = k}

\* C24: lock discipline of the assignment cache: a thread holding the write
\* lock of an experiment excludes every other reader and writer of its cache,
\* the read lock is held by exactly the threads that are reading, and a
\* thread that is computing the bucket value or scanning the traffic
\* allocation holds no lock.
C24_LockDiscipline ==
    /\ \A k \in DOMAIN mutex :
          /\ Cardinality(WritersOf(k)) <= 1
          /\ WritersOf(k) # {} => ReadersOf(k) = {}
          /\ mutex[k].readers = ReadersOf(k)
          /\ \A t \in Threads : mutex[k].writer = Ptr(t) <=> t \in WritersOf(k)
    /\ \A t \in Threads :
          pc[t] = "compute" =>
              /\ \A k \in DOMAIN mutex : t \notin mutex[k].readers /\ mutex[k].writer # Ptr(t)
              /\ projectCtx.mutex # Ptr(t)

\* two threads read the cache of one experiment together
C24_Witness ==
    \E k \in DOMAIN mutex :
        /\ Cardinality(ReadersOf(k)) = 2
        /\ mutex[k].readers = Threads
        /\ mutex[k].writer = Nil

-----------------------------------------------------------------------------
(* Consistency of the assignment cache *)

\* findBucket(getBucketValue(u)) for every experiment of the projects and
\* every user of the calls
ComputedVariation ==
    [e \in UNION {Range(NewProjectFromDataFile(d).project.experiments) : d \in MainDocs} |->
        [u \in Users |-> findBucket(e, getBucketValue(e, u))]]

\* every entry of every cache is what findBucket(getBucketValue(u)) gives
\* for its experiment
CacheIsComputed ==
    \A k \in DOMAIN cachedVariations :
        \A u \in DOMAIN cachedVariations[k] :
            ComputedVariation[project.experiments[k]][u] = Ptr(cachedVariations[k][u])

\* a step keeps every entry of every cache as it is
CacheEntriesKept ==
    \A k \in DOMAIN cachedVariations :
        \A u \in DOMAIN cachedVariations[k] :
            /\ u \in DOMAIN cachedVariations'[k]
            /\ cachedVariations'[k][u] = cachedVariations[k][u]

\* C26: cache consistency: in every reachable state of a project built by
\* NewProjectFromDataFile each cache entry (u -> V) of an experiment satisfies
\* V = findBucket(getBucketValue(u)) for that experiment, and an entry once
\* present is never removed or replaced by another variation, also when two
\* concurrent first-time calls for the same user both write it.
C26_CacheConsistency == [](CacheIsComputed) /\ [][CacheEntriesKept]_vars

\* two first-time calls for the same user of the same experiment have both
\* written the entry
C26_Witness ==
    /\ \A t \in Threads :
          /\ local[t].path = "computed"
          /\ pc[t] \in {"unlock", "ctxLock", "ctxUnlock", "done"}
          /\ local[t].variation # Nil
    /\ \A t, o \in Threads :
          /\ local[t].experimentName = local[o].experimentName
          /\ local[t].userID = local[o].userID
    /\ \E t \in Threads : CacheHolds(cachedVariations, local[t], Deref(local[t].variation))

-----------------------------------------------------------------------------
(* The configuration under the calls *)

\* C25: no sequence of Project.GetVariation, GetVariation(ctx, ...) and
\* EventsFromContext calls changes a project's experiment map or any
\* experiment's status, traffic allocation or forced variations: the
\* assignment caches and the session buffer are the only state they modify.
C25_ConfigurationFrame ==
    [][/\ DOMAIN project'.experiments = DOMAIN project.experiments
       /\ \A k \in DOMAIN project.experiments :
             /\ project'.experiments[k].status = project.experiments[k].status
             /\ project'.experiments[k].trafficAllocation
                    = project.experiments[k].trafficAllocation
             /\ project'.experiments[k].forcedVariations
                    = project.experiments[k].forcedVariations
       /\ project' = project]_vars

\* calls have filled a cache and recorded impressions, a drain has emptied
\* the session buffer, and the project is the one that was built
C25_Witness ==
    /\ \E k \in DOMAIN cachedVariations : DOMAIN cachedVariations[k] # {}
    /\ log.recorded # <<>>
    /\ log.drained # <<>>
    /\ projectCtx.impressions = <<>>
    /\ project = NewProjectFromDataFile(DocB).project

-----------------------------------------------------------------------------
(* The order of the options of NewEvents *)

\* options in the order perm
Reordered(options, perm) == [n \in 1..Len(options) |-> options[perm[n]]]

\* C27: order independence of batch assembly: for a fixed collection of
\* ActivatedImpression options, whether NewEvents succeeds or fails, and the
\* account id of the resulting batch, do not depend on the order in which the
\* options are supplied.
C27_OrderIndependent ==
    es.pc = "done" =>
        \A perm \in Permutations(1..Len(es.options)) :
            LET r == NewEvents(Reordered(es.options, perm), es.uuids)
            IN  /\ r.err = Nil <=> es.err = Nil
                /\ es.err = Nil => r.events.AccountID = es.events.AccountID

-----------------------------------------------------------------------------
(* A drain that panics *)

\* thread t is in, or has left, an EventsFromContext call that panics
DrainPanics(p, l) == l.via = "drain" /\ p \in {"drainPanicUnlock", "panicked"}

\* C29: a failed drain changes nothing: when EventsFromContext panics because
\* batch assembly failed, no step of the call changes the session's
\* impressions, which are what the call found, the session lock is released
\* when the panic leaves the call, and every recorded impression is still in
\* the buffer or in the batch of a successful drain, so that a later correct
\* call reports all of them.
C29_FailedDrainChangesNothing ==
    /\ [][\A t \in Threads :
             (StepOf(t) /\ DrainPanics(pc'[t], local'[t]))
             => /\ projectCtx'.impressions = projectCtx.impressions
                /\ log'.drained = log.drained
                /\ log'.recorded = log.recorded]_vars
    /\ [](\A t \in Threads :
             /\ pc[t] = "drainPanicUnlock"
                => /\ projectCtx.mutex = Ptr(t)
                   /\ local[t].seen > 0
                   /\ Len(projectCtx.impressions) = local[t].seen
                   /\ local[t].events = Nil
             /\ DrainPanics(pc[t], local[t]) /\ pc[t] = "panicked"
                => projectCtx.mutex # Ptr(t))
    /\ [](AccountsForRecorded(DrainedVisitors(log.drained, 1, FALSE)))

\* after a drain that panicked on two recorded impressions, the drain of
\* another thread has returned one batch that holds both
C29_Witness ==
    \E t \in Threads, o \in Threads :
        /\ pc[t] = "panicked"
        /\ local[t].via = "drain"
        /\ local[t].seen = 2
        /\ pc[o] = "done"
        /\ local[o].via = "drain"
        /\ local[o].events # Nil
        /\ local[o].seen = 2
        /\ Len(log.drained) = 1
        /\ Len(log.recorded) = 2
        /\ Len(SessionVisitors(log.drained[1])) = 2
        /\ projectCtx.impressions = <<>>
        /\ projectCtx.mutex = Nil

-----------------------------------------------------------------------------
(* Deadlock freedom *)

\* thread t holds the lock of some experiment's cache, for reading or writing
HoldsCacheLock(t) ==
    \E k \in DOMAIN mutex : t \in mutex[k].readers \/ mutex[k].writer = Ptr(t)

\* thread t holds the lock of the session's buffer
HoldsSessionLock(t) == projectCtx.mutex = Ptr(t)

\* thread t is inside a call
InCall(t) == pc[t] \notin {"idle", "done", "panicked"}

\* C28: deadlock freedom: no call holds an experiment's cache lock and the
\* session's buffer lock at the same time, and under fair scheduling every
\* concurrent call to Project.GetVariation, GetVariation(ctx, ...) and
\* EventsFromContext eventually returns or panics, with every lock it took
\* released.
C28_DeadlockFree ==
    /\ [](\A t \in Threads :
             /\ ~(HoldsCacheLock(t) /\ HoldsSessionLock(t))
             /\ ~InCall(t) => (~HoldsCacheLock(t) /\ ~HoldsSessionLock(t)))
    /\ \A t \in Threads : InCall(t) ~> ~InCall(t)

\* a call waits for the write lock of a cache another call is reading, and
\* the session lock has been through a drain
C28_Witness ==
    \E t \in Threads, o \in Threads :
        /\ pc[t] = "lock"
        /\ pc[o] = "runlock"
        /\ local[t].experimentName = local[o].experimentName
        /\ HoldsCacheLock(o)
        /\ log.drains > 0

=============================================================================
